---------------------------- MODULE Spec2Model ----------------------------
(***************************************************************************)
(* The Catan game engine (catan-core.ts: CatanEngine and                   *)
(* FourToOneTradingService) on the board of board-presets.ts               *)
(* (standard19Tiles / standard19Nodes).                                    *)
(*                                                                         *)
(* Tile ids "T<i>" and node ids "N<k>" are modelled by the numbers i and   *)
(* k; 0 is an id that is not on the board.  Player ids are strings.        *)
(* Every engine call is one action: calls are serialized by the caller,    *)
(* and a call that throws or returns false before it assigned anything     *)
(* leaves every field as it was.                                           *)
(***************************************************************************)
EXTENDS Integers, Sequences, FiniteSets, TLC

(***************************************************************************)
(* Bounds of the model.                                                    *)
(***************************************************************************)
\* nextPlayer is not taken once the turn counter has reached MaxTurn.
MaxTurn == 3

(***************************************************************************)
(* catan-core-types.ts                                                     *)
(***************************************************************************)
\* Object.values(ResourceType), in declaration order.
ResourceType == <<"Brick", "Lumber", "Wool", "Grain", "Ore", "Desert">>

Resources == {ResourceType[i] : i \in 1..Len(ResourceType)}

Range(s) == {s[i] : i \in 1..Len(s)}

Min(a, b) == IF a < b THEN a ELSE b

Max(a, b) == IF a > b THEN a ELSE b

\* null / undefined
Null == "<null>"

\* No object: what a caller that has not asked for an object yet holds.
NoObject == [held |-> FALSE]

\* JavaScript truthiness of a string | null | undefined value.
Truthy(x) == x # Null /\ x # ""

(***************************************************************************)
(* board-presets.ts: the 19 tiles and the corner nodes.                    *)
(***************************************************************************)
\* Integer-scaled corner offsets (cube coordinates), corners 0..5.
CORNERS == << <<2, -1, -1>>, <<1, 1, -2>>, <<-1, 2, -1>>,
              <<-2, 1, 1>>, <<-1, -1, 2>>, <<1, -2, 1>> >>

axialToCube(a) == <<a[1], -a[1] - a[2], a[2]>>

cornerKeyForCenter(c, cornerIndex) ==
    LET o == CORNERS[cornerIndex + 1]
    IN  <<2 * c[1] + o[1], 2 * c[2] + o[2], 2 * c[3] + o[3]>>

\* One row of generateAxialCenters' result: the centers <<q, r>> with this r,
\* q ascending.
AxialRow(radius, r) ==
    LET q1 == Max(-radius, -r - radius)
        q2 == Min(radius, -r + radius)
    IN  [i \in 1..(q2 - q1 + 1) |-> <<q1 + i - 1, r>>]

\* generateAxialCenters(2): sorted by r, then q (rows of 3/4/5/4/3).
generateAxialCenters ==
    AxialRow(2, -2) \o AxialRow(2, -1) \o AxialRow(2, 0) \o AxialRow(2, 1)
        \o AxialRow(2, 2)

RESOURCE_POOL ==
    <<"Brick", "Brick", "Brick", "Lumber", "Lumber", "Lumber", "Lumber",
      "Wool", "Wool", "Wool", "Wool", "Grain", "Grain", "Grain", "Grain",
      "Ore", "Ore", "Ore", "Desert">>

NUMBER_TOKENS == <<5, 2, 6, 3, 8, 10, 9, 12, 11, 4, 8, 10, 9, 4, 5, 6, 3, 11>>

nonDesert == SelectSeq(RESOURCE_POOL, LAMBDA r : r # "Desert")

\* buildStandard19Tiles: the center tile is the desert without a number
\* (0 stands for null); the others take the pools in encounter order.
standard19Tiles ==
    LET centers == generateAxialCenters
        isCenter(i) == centers[i] = <<0, 0>>
        \* number of non-center tiles before tile i
        nIdx(i) == Cardinality({j \in 1..(i - 1) : ~isCenter(j)})
    IN  [i \in 1..Len(centers) |->
            IF isCenter(i)
            THEN [id |-> i, resource |-> "Desert", numberToken |-> 0]
            ELSE [id |-> i,
                  resource |-> nonDesert[(nIdx(i) % Len(nonDesert)) + 1],
                  numberToken |-> NUMBER_TOKENS[nIdx(i) + 1]]]

TileIds == 1..Len(standard19Tiles)

\* The corner key of corner ci (0..5) of tile t.
TileCornerKey(t, ci) ==
    cornerKeyForCenter(axialToCube(generateAxialCenters[t]), ci)

\* The corners in the order buildNodesFromTiles visits them: tiles in list
\* order, corners 0..5 of each.
cornerVisits ==
    [j \in 1..(6 * Len(standard19Tiles)) |->
        TileCornerKey(((j - 1) \div 6) + 1, (j - 1) % 6)]

\* The visits that meet their key for the first time (cornerToNode.get(key)
\* is undefined): each mints the next node id.
firstVisits ==
    {j \in DOMAIN cornerVisits :
        \A i \in 1..(j - 1) : cornerVisits[i] # cornerVisits[j]}

\* buildNodesFromTiles, the cornerToNode map: the keys in first-seen order;
\* node "N<k>" is the k-th key.
cornerToNode ==
    [k \in 1..Cardinality(firstVisits) |->
        cornerVisits[CHOOSE j \in firstVisits :
            Cardinality({i \in firstVisits : i <= j}) = k]]

NodeIds == 1..Len(cornerToNode)

NodeOfKey(key) == CHOOSE k \in NodeIds : cornerToNode[k] = key

\* nodeIdsForCorners of tile t: the node at each corner 0..5.
nodeIdsForCorners ==
    [t \in TileIds |-> [i \in 1..6 |-> NodeOfKey(TileCornerKey(t, i - 1))]]

\* NodeDef.adjacentTiles: the tiles touching node k.
adjacentTiles ==
    [k \in NodeIds |-> {t \in TileIds : k \in Range(nodeIdsForCorners[t])}]

\* NodeDef.neighborNodes: the nodes next to k on the ring of some tile.
neighborNodes ==
    [k \in NodeIds |->
        {m \in NodeIds :
            \E t \in TileIds : \E i \in 1..6 :
                LET a == nodeIdsForCorners[t][i]
                    b == nodeIdsForCorners[t][(i % 6) + 1]
                IN  (a = k /\ b = m) \/ (a = m /\ b = k)}]

\* standard19Nodes as a list sorted by node number: the ascending sequence
\* of a set of node numbers.
RECURSIVE SortedSeq(_)
SortedSeq(S) ==
    IF S = {} THEN <<>>
    ELSE LET m == CHOOSE x \in S : \A y \in S : x <= y
         IN  <<m>> \o SortedSeq(S \ {m})

(***************************************************************************)
(* catan-core.ts: resource bundles.  A bundle is a function on Resources;  *)
(* a key missing from a partial bundle counts as 0 (the code's "?? 0").    *)
(***************************************************************************)
EMPTY_BUNDLE == [r \in Resources |-> 0]

\* A partial bundle given by its entries.
Bundle(entries) ==
    [r \in Resources |-> IF r \in DOMAIN entries THEN entries[r] ELSE 0]

addBundles(target, delta) ==
    [r \in Resources |-> IF r = "Desert" THEN target[r] ELSE target[r] + delta[r]]

subBundles(target, delta) ==
    [r \in Resources |-> IF r = "Desert" THEN target[r] ELSE target[r] - delta[r]]

inc(bundle, res, by) ==
    IF res = "Desert" THEN bundle ELSE [bundle EXCEPT ![res] = @ + by]

RECURSIVE SumOver(_, _)
SumOver(bundle, S) ==
    IF S = {} THEN 0
    ELSE LET r == CHOOSE x \in S : TRUE
         IN  bundle[r] + SumOver(bundle, S \ {r})

bundleCount(bundle) == SumOver(bundle, Resources \ {"Desert"})

\* The initial bank of the constructor (no config.initialBank).
InitialBank == 19

initialBank == [r \in Resources |-> IF r = "Desert" THEN 0 ELSE InitialBank]

(***************************************************************************)
(* The engine's state.                                                     *)
(***************************************************************************)
VARIABLES
    players,            \* keys of this.players, in insertion order
    resources,          \* player id -> PlayerState.resources
    settlements,        \* player id -> PlayerState.settlements
    victoryPoints,      \* player id -> PlayerState.victoryPoints
    bank,               \* this.bank
    currentPlayerOrder, \* this.currentPlayerOrder
    currentIdx,         \* this.currentIdx (0-based)
    robberOn,           \* this.robberOn
    turn,               \* this.turn
    phase,              \* this.phase
    setupRound,         \* this.setupRound
    setupDirection,     \* this.setupDirection
    nodeOwnership,      \* this.nodeOwnership: node -> player id or Null
    tiles,              \* this.tiles
    nodeNeighbors,      \* this.nodeNeighbors: node -> neighbor nodes
    tileToNodes,        \* this.tileToNodes: tile -> its nodes, in node order
    setupOrder,         \* currentPlayerOrder as the last successful startGame left it
    placed,             \* successful placeInitialSettlement calls since then
    view,               \* the object getPublicState returned since the last
                        \* call that can change the engine, or NoObject
    handCopy,           \* the same of getPlayerResources
    snapshot,           \* the object exportState last returned, or NoObject
    bankShared,         \* this.bank is the object snapshot.bank
    store,              \* useGameStore's fields, or NoObject without a store
    storage,            \* localStorage's item under SAVE_KEY, or NoObject
    inits,              \* the init() calls waiting for fetchDrandSeed32
    rolls,              \* waiting: the rollAndDistribute() calls waiting for
                        \* rollDice; resolved: the rolls applied since the
                        \* last nextPlayer; seven: a 7 was applied and
                        \* moveRobber has not been called since
    drand               \* a fetchDrandSeed32() call: its response and result

engineVars ==
    <<players, resources, settlements, victoryPoints, bank, currentPlayerOrder,
      currentIdx, robberOn, turn, phase, setupRound, setupDirection,
      nodeOwnership>>

\* The fields the constructor fills from the board and no method assigns.
boardVars == <<tiles, nodeNeighbors, tileToNodes>>

\* The objects the caller holds, and whether the engine's bank is one of them.
callerVars == <<view, handCopy, snapshot, bankShared>>

\* The store, the browser's storage and the calls that wait for a service.
storeVars == <<store, storage, inits, rolls, drand>>

vars == <<engineVars, boardVars, setupOrder, placed, callerVars, storeVars>>

\* The engine's fields as one value.
Engine ==
    [players |-> players, resources |-> resources, settlements |-> settlements,
     victoryPoints |-> victoryPoints, bank |-> bank,
     currentPlayerOrder |-> currentPlayerOrder, currentIdx |-> currentIdx,
     robberOn |-> robberOn, turn |-> turn, phase |-> phase,
     setupRound |-> setupRound, setupDirection |-> setupDirection,
     nodeOwnership |-> nodeOwnership]

\* The engine's fields become those of e.
Becomes(e) ==
    /\ players' = e.players
    /\ resources' = e.resources
    /\ settlements' = e.settlements
    /\ victoryPoints' = e.victoryPoints
    /\ bank' = e.bank
    /\ currentPlayerOrder' = e.currentPlayerOrder
    /\ currentIdx' = e.currentIdx
    /\ robberOn' = e.robberOn
    /\ turn' = e.turn
    /\ phase' = e.phase
    /\ setupRound' = e.setupRound
    /\ setupDirection' = e.setupDirection
    /\ nodeOwnership' = e.nodeOwnership

\* new CatanEngine(rng, trader, {initialBank: configBank}), before the caller
\* has asked for any view or snapshot.
NewCatanEngine(configBank) ==
    /\ tiles = standard19Tiles
    /\ nodeNeighbors = neighborNodes
    /\ tileToNodes =
         [t \in TileIds |-> SortedSeq({k \in NodeIds : t \in adjacentTiles[k]})]
    /\ players = <<>>
    /\ resources = <<>>
    /\ settlements = <<>>
    /\ victoryPoints = <<>>
    /\ bank = configBank
    /\ currentPlayerOrder = <<>>
    /\ currentIdx = 0
    /\ robberOn =
         LET deserts == {i \in DOMAIN standard19Tiles :
                            standard19Tiles[i].resource = "Desert"}
         IN  IF deserts # {}
             THEN standard19Tiles[
                      CHOOSE i \in deserts : \A j \in deserts : i <= j].id
             ELSE standard19Tiles[1].id
    /\ turn = 0
    /\ phase = "setupPlacement"
    /\ setupRound = 1
    /\ setupDirection = 1
    /\ nodeOwnership = [n \in DOMAIN neighborNodes |-> Null]
    /\ setupOrder = <<>>
    /\ placed = 0
    /\ view = NoObject
    /\ handCopy = NoObject
    /\ snapshot = NoObject
    /\ bankShared = FALSE

\* No store holds the engine: its caller calls it directly.
NoStore ==
    /\ store = NoObject
    /\ storage = NoObject
    /\ inits = <<>>
    /\ rolls = [waiting |-> 0, resolved |-> 0, seven |-> FALSE]

\* No fetchDrandSeed32() call is followed.
NoFetch == drand = NoObject

\* new CatanEngine(rng, trader)
Init == NewCatanEngine(initialBank) /\ NoStore /\ NoFetch

(***************************************************************************)
(* An engine call is a function of the engine's fields and its arguments:  *)
(* [ret, st], what the call returns ("ok" for a call that returns nothing  *)
(* or an object, "true", "false", "error" for a call that throws) and the  *)
(* engine's fields after it.                                               *)
(***************************************************************************)
\* A call that throws ("error") or returns false before it changed anything.
Rejected(how) == [ret |-> how, st |-> Engine]

Returns(how, e) == [ret |-> how, st |-> e]

\* this.players.has(id)
HasPlayer(id) == id \in Range(players)

\* A lookup that finds no node owned, to compare with ownerOf.
ownerOfNone(n) == Null

\* this.nodeOwnership.get(n) ?? null
ownerOf(n) == IF n \in DOMAIN nodeOwnership THEN nodeOwnership[n] ELSE Null

\* this.nodeNeighbors.get(n) ?? []
neighborsOf(n) == IF n \in DOMAIN nodeNeighbors THEN nodeNeighbors[n] ELSE {}

\* A distance test that lets every node pass, to compare with TooClose.
TooCloseNever(nodeId) == FALSE

\* neighbors.some((n) => (this.nodeOwnership.get(n) ?? null) !== null)
TooClose(nodeId) == \E n \in neighborsOf(nodeId) : ownerOf(n) # Null

\* An assignment that forgets every other owner, to compare with SetOwner.
SetOwnerOnly(nodeId, playerId) ==
    [n \in DOMAIN nodeOwnership \cup {nodeId} |->
        IF n = nodeId THEN playerId ELSE Null]

\* this.nodeOwnership.set(nodeId, playerId)
SetOwner(nodeId, playerId) ==
    [n \in DOMAIN nodeOwnership \cup {nodeId} |->
        IF n = nodeId THEN playerId ELSE nodeOwnership[n]]

\* A settlement set that never grows, to compare with AddSettlement.
AddSettlementNever(owned, nodeId) == owned

\* p.settlements.add(nodeId)
AddSettlement(owned, nodeId) == owned \cup {nodeId}

IndexOf(seq, x) == CHOOSE i \in 1..Len(seq) : seq[i] = x

\* getAvailableSettlementSpots(): the entries of nodeOwnership without a
\* (truthy) owner and without an owned neighbor, as a set.
getAvailableSettlementSpots ==
    {nid \in DOMAIN nodeOwnership :
        ~Truthy(nodeOwnership[nid]) /\ ~TooClose(nid)}

(***************************************************************************)
(* Lifecycle.                                                              *)
(***************************************************************************)
addPlayer(id) ==
    IF HasPlayer(id) THEN Rejected("error")
    ELSE Returns("ok",
           [Engine EXCEPT
              !.players = Append(players, id),
              !.resources = resources @@ (id :> EMPTY_BUNDLE),
              !.settlements = settlements @@ (id :> {}),
              !.victoryPoints = victoryPoints @@ (id :> 0),
              !.currentPlayerOrder = Append(players, id)])

\* A reordering that moves first to the front and keeps the others in place,
\* to compare with Rotate.
RotateToFront(order, first) ==
    <<first>> \o SelectSeq(order, LAMBDA x : x # first)

\* order.slice(idx).concat(order.slice(0, idx)), idx the 0-based index of first
Rotate(order, first) ==
    LET idx == IndexOf(order, first) - 1
    IN  SubSeq(order, idx + 1, Len(order)) \o SubSeq(order, 1, idx)

\* firstPlayerId = Null: called without an argument.
startGame(firstPlayerId) ==
    IF Len(players) < 2 THEN Rejected("error")
    ELSE IF Truthy(firstPlayerId) /\ ~HasPlayer(firstPlayerId)
    THEN Rejected("error")
    ELSE Returns("ok",
           [Engine EXCEPT
              !.currentPlayerOrder =
                  IF Truthy(firstPlayerId) THEN Rotate(players, firstPlayerId)
                  ELSE currentPlayerOrder,
              !.turn = 1,
              !.currentIdx = 0,
              !.phase = "setupPlacement",
              !.setupRound = 1,
              !.setupDirection = 1])

\* get currentPlayer(): the id of the player on the move, or Null.
currentPlayer ==
    IF Len(currentPlayerOrder) = 0 THEN Null
    ELSE IF currentIdx + 1 \in DOMAIN currentPlayerOrder
            /\ HasPlayer(currentPlayerOrder[currentIdx + 1])
         THEN currentPlayerOrder[currentIdx + 1]
         ELSE Null

(***************************************************************************)
(* Setup placement.                                                        *)
(***************************************************************************)
\* The snake pointer after a successful placement: <<currentIdx, setupRound,
\* setupDirection, phase>>.
AdvanceSnake ==
    LET lastIndex == Len(currentPlayerOrder) - 1
    IN  IF setupRound = 1
        THEN IF currentIdx = lastIndex
             THEN <<currentIdx, 2, -1, phase>>
             ELSE <<currentIdx + 1, setupRound, setupDirection, phase>>
        ELSE IF currentIdx = 0
             THEN <<0, setupRound, setupDirection, "awaitingRoll">>
             ELSE <<currentIdx - 1, setupRound, setupDirection, phase>>

placeInitialSettlement(playerId, nodeId) ==
    IF phase # "setupPlacement" THEN Rejected("error")
    ELSE IF ~HasPlayer(playerId) THEN Rejected("error")
    ELSE IF ownerOf(nodeId) # Null THEN Rejected("error")
    ELSE IF TooClose(nodeId) THEN Rejected("error")
    ELSE Returns("ok",
           [Engine EXCEPT
              !.nodeOwnership = SetOwner(nodeId, playerId),
              !.settlements[playerId] = AddSettlement(@, nodeId),
              !.victoryPoints[playerId] = @ + 1,
              !.currentIdx = AdvanceSnake[1],
              !.setupRound = AdvanceSnake[2],
              !.setupDirection = AdvanceSnake[3],
              !.phase = AdvanceSnake[4]])

(***************************************************************************)
(* Dice roll: production, or discard on seven.                             *)
(***************************************************************************)
\* The visits of a distributeFor that does not look where the robber stands,
\* to compare with ClaimsFrom.
RECURSIVE ClaimsFromRobbed(_, _)
ClaimsFromRobbed(i, numberToken) ==
    IF i > Len(tiles) THEN <<>>
    ELSE LET tile == tiles[i]
             here == IF tile.numberToken = numberToken
                     THEN [j \in 1..Len(tileToNodes[tile.id]) |->
                              <<tile.resource, ownerOf(tileToNodes[tile.id][j])>>]
                     ELSE <<>>
         IN  here \o ClaimsFromRobbed(i + 1, numberToken)

\* The (tile, node) pairs distributeFor visits, in its order: the tiles with
\* this number that do not carry the robber, in list order, and the nodes of
\* each; as <<resource, owner>>.
RECURSIVE ClaimsFrom(_, _)
ClaimsFrom(i, numberToken) ==
    IF i > Len(tiles) THEN <<>>
    ELSE LET tile == tiles[i]
             here == IF tile.numberToken = numberToken /\ tile.id # robberOn
                     THEN LET nodes == IF tile.id \in DOMAIN tileToNodes
                                       THEN tileToNodes[tile.id] ELSE <<>>
                          IN  [j \in 1..Len(nodes) |->
                                  <<tile.resource, ownerOf(nodes[j])>>]
                     ELSE <<>>
         IN  here \o ClaimsFrom(i + 1, numberToken)

\* A payment that credits the owner and leaves the bank alone, to compare
\* with PayClaim.
PayClaimFromNowhere(ledgers, claim) ==
    IF ~Truthy(claim[2]) \/ ledgers[1][claim[1]] <= 0 THEN ledgers
    ELSE << ledgers[1],
            [ledgers[2] EXCEPT ![claim[2]][claim[1]] = @ + 1] >>

\* One visit of distributeFor's inner loop on the ledgers <<bank, resources>>.
PayClaim(ledgers, claim) ==
    LET res     == claim[1]
        ownerId == claim[2]
        bk      == ledgers[1]
        hands   == ledgers[2]
        gain    == 1
        available == bk[res]
        actual  == Min(gain, available)
    IN  IF ~Truthy(ownerId) THEN ledgers
        ELSE IF available <= 0 THEN ledgers
        ELSE << [bk EXCEPT ![res] = @ - actual],
                [hands EXCEPT ![ownerId][res] = @ + actual] >>

RECURSIVE PayClaims(_, _)
PayClaims(ledgers, claims) ==
    IF claims = <<>> THEN ledgers
    ELSE PayClaims(PayClaim(ledgers, Head(claims)), Tail(claims))

\* distributeFor(numberToken): the ledgers <<bank, resources>> after it.
distributeFor(numberToken) ==
    PayClaims(<<bank, resources>>, ClaimsFrom(1, numberToken))

\* The kinds from Ore back to Brick, to compare with DiscardOrder.
DiscardOrderBackwards == <<"Ore", "Grain", "Wool", "Lumber", "Brick">>

\* discardEvenly's fixed order of kinds.
DiscardOrder == <<"Brick", "Lumber", "Wool", "Grain", "Ore">>

\* One pass of discardEvenly's for loop from kind i on:
\* st = <<hand, bank, remaining, did>>.
RECURSIVE DiscardPass(_, _)
DiscardPass(st, i) ==
    IF i > Len(DiscardOrder) THEN st
    ELSE LET res == DiscardOrder[i]
         IN  IF st[1][res] > 0 /\ st[3] > 0
             THEN DiscardPass(<< [st[1] EXCEPT ![res] = @ - 1],
                                 [st[2] EXCEPT ![res] = @ + 1],
                                 st[3] - 1, TRUE >>, i + 1)
             ELSE DiscardPass(st, i + 1)

\* discardEvenly(p, toDiscard) on <<hand of p, bank>>: the while loop.
RECURSIVE discardEvenly(_, _, _)
discardEvenly(hand, bk, toDiscard) ==
    IF toDiscard > 0
    THEN LET st == DiscardPass(<<hand, bk, toDiscard, FALSE>>, 1)
         IN  IF ~st[4] THEN <<hand, bk>>
             ELSE discardEvenly(st[1], st[2], st[3])
    ELSE <<hand, bk>>

\* A threshold one card too low, to compare with MustDiscard.
MustDiscardFromSeven(total) == total >= 7

\* Who has to discard on a seven.
MustDiscard(total) == total >= 8

\* handleRobberSeven from the i-th player on, on the ledgers <<bank, resources>>.
RECURSIVE RobberSevenFrom(_, _)
RobberSevenFrom(ledgers, i) ==
    IF i > Len(players) THEN ledgers
    ELSE LET p     == players[i]
             total == bundleCount(ledgers[2][p])
         IN  IF MustDiscard(total)
             THEN LET d == discardEvenly(ledgers[2][p], ledgers[1], total \div 2)
                  IN  RobberSevenFrom(
                          << d[2], [ledgers[2] EXCEPT ![p] = d[1]] >>, i + 1)
             ELSE RobberSevenFrom(ledgers, i + 1)

handleRobberSeven == RobberSevenFrom(<<bank, resources>>, 1)

\* The phase a resolved roll leaves.
PhaseAfterRoll(total) ==
    IF total = 7 THEN "awaitingRobberMove" ELSE "awaitingActions"

\* A phase test that lets a roll pass in every phase, to compare with
\* RollAllowed.
RollAllowedAlways == TRUE

\* The phase test rollAndDistribute starts with.
RollAllowed == phase = "awaitingRoll"

\* Whether rollAndDistribute reaches "await this.rng.rollDice()".
RequestsDice == RollAllowed

\* rollAndDistribute() from the point where "await this.rng.rollDice()" has
\* returned the dice.
afterRollDice(dice1, dice2) ==
    LET total   == dice1 + dice2
        ledgers == IF total = 7 THEN handleRobberSeven
                   ELSE distributeFor(total)
    IN  Returns("ok",
          [Engine EXCEPT
             !.bank = ledgers[1],
             !.resources = ledgers[2],
             !.phase = PhaseAfterRoll(total)])

\* rollAndDistribute() with the dice the random service returns, when no
\* other call runs while it waits for them.
rollAndDistribute(dice1, dice2) ==
    IF ~RollAllowed THEN Rejected("error")
    ELSE afterRollDice(dice1, dice2)

nextPlayer ==
    IF phase # "awaitingActions" THEN Rejected("error")
    ELSE Returns("ok",
           [Engine EXCEPT
              !.currentIdx = (currentIdx + 1) % Len(currentPlayerOrder),
              !.turn = turn + 1,
              !.phase = "awaitingRoll"])

(***************************************************************************)
(* Robber.                                                                 *)
(***************************************************************************)
\* The kinds of the cards in victimCards.
victimCards(victim) == {res \in Resources : resources[victim][res] > 0}

\* A theft that leaves the victim's hand alone, to compare with Steal.
StealCopy(victim, thief, res) == [resources EXCEPT ![thief][res] = @ + 1]

\* The hands after one card of kind res went from victim to thief
\* (two assignments in this order; victim and thief may be the same player).
Steal(victim, thief, res) ==
    LET afterTake == [resources EXCEPT ![victim][res] = @ - 1]
    IN  [afterTake EXCEPT ![thief][res] = @ + 1]

\* A robber move that always opens the action phase, to compare with
\* PhaseAfterRobber.
PhaseAfterRobberAlways == "awaitingActions"

\* The phase moveRobber leaves.
PhaseAfterRobber ==
    IF phase = "awaitingRobberMove" THEN "awaitingActions" ELSE phase

\* A tile lookup that finds every id, to compare with KnownTile.
KnownTileAlways(toTile) == TRUE

\* this.tiles.find((t) => t.id === toTile)
KnownTile(toTile) == \E i \in DOMAIN tiles : tiles[i].id = toTile

\* Whether moveRobber(_, stealFromPlayerId) takes a card.
Steals(stealFromPlayerId) ==
    /\ Truthy(stealFromPlayerId)
    /\ HasPlayer(stealFromPlayerId)
    /\ currentPlayer # Null
    /\ victimCards(stealFromPlayerId) # {}

\* moveRobber(toTile, stealFromPlayerId); stealFromPlayerId = Null: called
\* without a victim; card: the kind of victimCards[idx], idx drawn by
\* Math.random.
moveRobber(toTile, stealFromPlayerId, card) ==
    IF ~KnownTile(toTile) THEN Rejected("error")
    ELSE Returns("ok",
           [Engine EXCEPT
              !.robberOn = toTile,
              !.phase = PhaseAfterRobber,
              !.resources =
                  IF Steals(stealFromPlayerId)
                  THEN Steal(stealFromPlayerId, currentPlayer, card)
                  ELSE resources])

\* What moveRobber(toTile, stealFromPlayerId) returns for a known tile: the
\* theft it reports, or Null when it returns no object.
theftReport(stealFromPlayerId, card) ==
    IF Steals(stealFromPlayerId)
    THEN [from |-> stealFromPlayerId, to |-> currentPlayer, resource |-> card]
    ELSE Null

(***************************************************************************)
(* FourToOneTradingService.                                                *)
(***************************************************************************)
\* A hasResources that finds every bundle held, to compare with hasResources.
hasResourcesAlways(hand, bundle) == TRUE

hasResources(hand, bundle) == \A res \in Resources : ~(hand[res] < bundle[res])

\* Object.entries(b).filter(([_, v]) => (v ?? 0) > 0), as the set of kinds.
PositiveEntries(b) == {res \in Resources : b[res] > 0}

\* tradeWithBank's checks: TRUE iff the trade is carried out.
TradeAccepted(hand, bk, give, receive) ==
    /\ Cardinality(PositiveEntries(give)) = 1
    /\ LET giveType == CHOOSE r \in PositiveEntries(give) : TRUE
           giveQty  == give[giveType]
       IN  /\ giveType # "Desert"
           /\ giveQty % 4 = 0
           /\ Cardinality(PositiveEntries(receive)) = 1
           /\ LET recvType == CHOOSE r \in PositiveEntries(receive) : TRUE
                  recvQty  == receive[recvType]
              IN  /\ recvType # "Desert"
                  /\ recvQty = giveQty \div 4
                  /\ hasResources(hand, give)
                  /\ ~(bk[recvType] < recvQty)

\* tradeWithBank's mutations: <<hand, bank>> after an accepted trade.
TradeEffect(hand, bk, give, receive) ==
    LET recvType == CHOOSE r \in PositiveEntries(receive) : TRUE
        recvQty  == receive[recvType]
        hand1    == subBundles(hand, give)
        bk1      == addBundles(bk, give)
    IN  << [hand1 EXCEPT ![recvType] = @ + recvQty],
           [bk1 EXCEPT ![recvType] = @ - recvQty] >>

\* tradeWithBank(player, bank, give, receive): <<returned, hand, bank>>.
tradeWithBank(hand, bk, give, receive) ==
    IF TradeAccepted(hand, bk, give, receive)
    THEN LET e == TradeEffect(hand, bk, give, receive)
         IN  <<TRUE, e[1], e[2]>>
    ELSE <<FALSE, hand, bk>>

maritimeTrade(playerId, give, receive) ==
    IF ~HasPlayer(playerId) THEN Rejected("false")
    ELSE LET t == tradeWithBank(resources[playerId], bank, give, receive)
         IN  Returns(IF t[1] THEN "true" ELSE "false",
               [Engine EXCEPT !.resources[playerId] = t[2], !.bank = t[3]])

(***************************************************************************)
(* Paid settlement.                                                        *)
(***************************************************************************)
\* The cost of the two-kind ruleset, to compare with SettlementCost.
SettlementCostTwoKinds == Bundle([Brick |-> 1, Lumber |-> 1])

SettlementCost == Bundle([Brick |-> 1, Lumber |-> 1, Wool |-> 1, Grain |-> 1])

buildSettlementAt(playerId, nodeId) ==
    IF phase # "awaitingActions" THEN Rejected("error")
    ELSE IF ~HasPlayer(playerId) THEN Rejected("false")
    ELSE IF ownerOf(nodeId) # Null THEN Rejected("false")
    ELSE IF TooClose(nodeId) THEN Rejected("false")
    ELSE IF ~hasResources(resources[playerId], SettlementCost)
    THEN Rejected("false")
    ELSE Returns("true",
           [Engine EXCEPT
              !.resources[playerId] = subBundles(@, SettlementCost),
              !.bank = addBundles(bank, SettlementCost),
              !.nodeOwnership = SetOwner(nodeId, playerId),
              !.settlements[playerId] = AddSettlement(@, nodeId),
              !.victoryPoints[playerId] = @ + 1])

(***************************************************************************)
(* The calls a caller makes, and their arguments.                          *)
(***************************************************************************)
\* The ids the caller mints for addPlayer, in minting order.
IdPool == <<"A", "B", "C">>

\* Player id arguments: the ids of IdPool, known or not yet known.
PlayerIds == Range(IdPool)

\* The ids addPlayer is called with, of the first n of IdPool: the ids in
\* use and the next new one.
AddPlayerInputs(n) == {IdPool[i] : i \in 1..Min(Len(players) + 1, n)}

\* firstPlayerId arguments of startGame; Null: called without one.
FirstInputs == PlayerIds \cup {Null}

\* Dice of the random service, by total: 4, 6, 7, 10.
DiceInputs == {<<2, 2>>, <<3, 3>>, <<3, 4>>, <<5, 5>>}

\* Dice of the setup profile, by total: 2 (no owned node produces), 7.
SetupDiceInputs == {<<1, 1>>, <<3, 4>>}

\* Tile arguments of moveRobber: T3, T10 (the desert), and 0, which is no tile.
TileInputs == {3, 10, 0}

\* The tiles the two-player game moves the robber to: T3 (from the desert,
\* where the constructor puts it, or once more), and no tile.
PlayTileInputs == {3, 0}

\* Victim arguments of moveRobber; Null: called without one.
VictimInputs == {"A", Null}

\* The card Math.random picks from victimCards (any kind when none is taken).
CardInputs(victim) ==
    IF Steals(victim) THEN victimCards(victim) ELSE {"Desert"}

\* give / receive arguments of maritimeTrade.
GiveInputs ==
    { Bundle([Brick |-> 4]),
      Bundle([Brick |-> 3]),
      Bundle([Brick |-> 4, Lumber |-> -8]) }

ReceiveInputs ==
    { Bundle([Wool |-> 1]),
      Bundle([Wool |-> 2]) }

\* Node arguments.  N13, N15 (tile T3), N17 (T3/T11), N32 (T6/T15),
\* N52 (T11/T14) and N22 (T4/T13) are pairwise not neighbors; N16 (T3/T5) is
\* a neighbor of N15 and N17; 0 is no node of the board.
PlaceNodes == {13, 15, 17, 32}

BuildNodes == {52, 16, 13}

SetupNodeList == <<13, 15, 17, 32, 52, 22>>

\* Every node argument above.
NodeInputs == PlaceNodes \cup BuildNodes \cup Range(SetupNodeList) \cup {0}

\* The setup profile's node arguments: the first node of SetupNodeList that
\* is free and far enough from every owned node, and N16.
SetupPlaceNodes ==
    LET free == {i \in DOMAIN SetupNodeList :
                    /\ ownerOf(SetupNodeList[i]) = Null
                    /\ ~TooClose(SetupNodeList[i])}
    IN  {SetupNodeList[i] : i \in {j \in free : \A k \in free : j <= k}}
            \cup {16}

\* The setup profile's placing players: the current player and the first of
\* IdPool.
SetupPlacers == {currentPlayer, IdPool[1]}

\* The snapshot the caller holds after the engine's bank has become bk: its
\* bank is the engine's when the two are one object.
SnapshotSeeing(bk) ==
    IF bankShared THEN [snapshot EXCEPT !.bank = bk] ELSE snapshot

\* A call that leaves the setup bookkeeping alone.
Call(r) ==
    /\ Becomes(r.st)
    /\ snapshot' = SnapshotSeeing(r.st.bank)
    /\ view' = NoObject
    /\ handCopy' = NoObject
    /\ UNCHANGED <<storeVars, boardVars, setupOrder, placed, bankShared>>

AddPlayer(id) == Call(addPlayer(id))

StartGame(first) ==
    LET r == startGame(first)
    IN  /\ Becomes(r.st)
        /\ setupOrder' = IF r.ret = "ok" THEN r.st.currentPlayerOrder ELSE setupOrder
        /\ placed' = IF r.ret = "ok" THEN 0 ELSE placed
        /\ view' = NoObject
        /\ handCopy' = NoObject
        /\ UNCHANGED <<storeVars, boardVars, snapshot, bankShared>>

PlaceInitialSettlement(p, n) ==
    LET r == placeInitialSettlement(p, n)
    IN  /\ Becomes(r.st)
        /\ placed' = IF r.ret = "ok" THEN placed + 1 ELSE placed
        /\ view' = NoObject
        /\ handCopy' = NoObject
        /\ UNCHANGED <<storeVars, boardVars, setupOrder, snapshot, bankShared>>

RollAndDistribute(d) == Call(rollAndDistribute(d[1], d[2]))

NextPlayer == turn < MaxTurn /\ Call(nextPlayer)

MoveRobber(t, v) == \E card \in CardInputs(v) : Call(moveRobber(t, v, card))

BuildSettlementAt(p, n) == Call(buildSettlementAt(p, n))

MaritimeTrade(p, g, r) == Call(maritimeTrade(p, g, r))

\* A game of two players whose caller starts it once, before any placement,
\* and places for the current player, as the store does.
Next ==
    \/ \E id \in AddPlayerInputs(2) : AddPlayer(id)
    \/ \E first \in FirstInputs : turn = 0 /\ StartGame(first)
    \/ \E n \in PlaceNodes : turn > 0 /\ PlaceInitialSettlement(currentPlayer, n)
    \/ \E d \in DiceInputs : RollAndDistribute(d)
    \/ NextPlayer
    \/ \E t \in PlayTileInputs, v \in VictimInputs : MoveRobber(t, v)
    \/ \E p \in PlayerIds, n \in BuildNodes : BuildSettlementAt(p, n)
    \/ \E p \in PlayerIds, g \in GiveInputs, r \in ReceiveInputs :
           MaritimeTrade(p, g, r)

Spec == Init /\ [][Next]_vars

\* The game of Next once more, for the claims about what one roll and one
\* robber move do.
TurnNext == Next

TurnSpec == Init /\ [][TurnNext]_vars

\* The lifecycle of up to three players: addPlayer, startGame and
\* placeInitialSettlement at any time and for a player who is not the current
\* one, with dice that make no owned node produce.
SetupNext ==
    \/ \E id \in AddPlayerInputs(3) : AddPlayer(id)
    \/ \E first \in FirstInputs : StartGame(first)
    \/ \E p \in SetupPlacers, n \in SetupPlaceNodes : PlaceInitialSettlement(p, n)
    \/ \E d \in SetupDiceInputs : RollAndDistribute(d)
    \/ NextPlayer
    \/ \E t \in TileInputs : MoveRobber(t, Null)

SetupSpec == Init /\ [][SetupNext]_vars

(***************************************************************************)
(* What the calls of one state can return.                                 *)
(***************************************************************************)
\* P holds of the result of every placeInitialSettlement, rollAndDistribute,
\* moveRobber, buildSettlementAt, maritimeTrade and nextPlayer call in the
\* current state, over every argument above (known and unknown player ids,
\* every victim, every card the theft can pick).
EveryPlayCall(P(_)) ==
    /\ \A p \in PlayerIds, n \in NodeInputs : P(placeInitialSettlement(p, n))
    /\ \A d \in DiceInputs \cup SetupDiceInputs : P(rollAndDistribute(d[1], d[2]))
    /\ P(nextPlayer)
    /\ \A t \in TileInputs, v \in FirstInputs :
           \A c \in CardInputs(v) : P(moveRobber(t, v, c))
    /\ \A p \in PlayerIds, n \in NodeInputs : P(buildSettlementAt(p, n))
    /\ \A p \in PlayerIds, g \in GiveInputs, r \in ReceiveInputs :
           P(maritimeTrade(p, g, r))

\* P holds of the result of every addPlayer and startGame call in the
\* current state.
EveryLifecycleCall(P(_)) ==
    /\ \A id \in PlayerIds : P(addPlayer(id))
    /\ \A f \in FirstInputs : P(startGame(f))

\* Node n has an owner / has a neighbor with an owner, read off the fields.
Owned(n) == n \in DOMAIN nodeOwnership /\ nodeOwnership[n] # Null

HasOwnedNeighbor(n) ==
    n \in DOMAIN nodeNeighbors /\ \E m \in nodeNeighbors[n] : Owned(m)

\* The cards of kind r in the hands of the first n players.
RECURSIVE HandsTotal(_, _)
HandsTotal(r, n) ==
    IF n = 0 THEN 0 ELSE resources[players[n]][r] + HandsTotal(r, n - 1)

(***************************************************************************)
(* Properties.                                                             *)
(***************************************************************************)
\* C1: resource conservation.  In every reachable state, for every resource
\* kind, the bank's count plus the sum of all hands equals the bank's count
\* at construction.
C1_ResourceConservation ==
    \A r \in Resources :
        bank[r] + HandsTotal(r, Len(players)) = initialBank[r]

\* A seven has just made a player discard 4 of 9 cards (8 Lumber and 1 Wool,
\* got from the bank for produced Brick).
C1_Witness ==
    /\ phase = "awaitingRobberMove"
    /\ \E p \in Range(players) :
           resources[p] = Bundle([Lumber |-> 5])
    /\ bank["Lumber"] # InitialBank

\* C2: distance rule.  No owned node has an owned neighbor, and
\* placeInitialSettlement and buildSettlementAt on a node with an owned
\* neighbor fail and change nothing, for every player id.
C2_DistanceRule ==
    /\ \A n \in DOMAIN nodeNeighbors : Owned(n) => ~HasOwnedNeighbor(n)
    /\ \A n \in DOMAIN nodeNeighbors :
           HasOwnedNeighbor(n) =>
               \A p \in PlayerIds :
                   LET a == placeInitialSettlement(p, n)
                       b == buildSettlementAt(p, n)
                   IN  /\ a.ret = "error" /\ a.st = Engine
                       /\ b.ret \in {"error", "false"} /\ b.st = Engine

\* In the action phase a player can pay for a settlement, and the free node
\* N16 has an owned neighbor.
C2_Witness ==
    /\ phase = "awaitingActions"
    /\ ~Owned(16) /\ HasOwnedNeighbor(16)
    /\ \E p \in Range(players) : hasResources(resources[p], SettlementCost)

\* C3: ownership is exclusive and permanent.  No node is among the
\* settlements of two players, every settlement is owned by its player, and
\* no call (of any kind, with any argument) clears or reassigns an owner.
C3_OwnershipPermanent ==
    /\ \A p, q \in Range(players) :
           p # q => settlements[p] \cap settlements[q] = {}
    /\ \A p \in Range(players) : \A n \in settlements[p] :
           n \in DOMAIN nodeOwnership /\ nodeOwnership[n] = p
    /\ LET owned == {n \in DOMAIN nodeOwnership : nodeOwnership[n] # Null}
           Keeps(r) ==
               LET after == r.st.nodeOwnership
               IN  \A n \in owned :
                       n \in DOMAIN after /\ after[n] = nodeOwnership[n]
       IN  EveryPlayCall(Keeps) /\ EveryLifecycleCall(Keeps)

\* The four setup nodes are owned, N52 has been built on since, and the
\* robber stands on T3.
C3_Witness ==
    /\ \A n \in PlaceNodes : Owned(n)
    /\ Owned(52)
    /\ robberOn = 3

\* The 0-based position in the order of the player who places after k
\* successful placements, N players.
SnakePos(k, N) == IF k < N THEN k ELSE 2 * N - 1 - k

\* C4: snake order.  After startGame with N players, after k < 2N
\* successful placements the phase is setupPlacement and the current player
\* is order[k] (k < N) or order[2N-1-k]; the 2N-th placement leaves
\* setupPlacement, with order[0] to roll.
C4_SnakeOrder ==
    setupOrder # <<>> =>
        LET N == Len(setupOrder)
        IN  /\ placed <= 2 * N
            /\ placed < 2 * N =>
                   /\ phase = "setupPlacement"
                   /\ currentPlayer = setupOrder[SnakePos(placed, N) + 1]
            /\ placed = 2 * N =>
                   /\ phase # "setupPlacement"
                   /\ (phase = "awaitingRoll" /\ turn = 1) =>
                          currentPlayer = setupOrder[1]

\* C5: when the phase goes from setupPlacement to awaitingRoll, every player
\* owns exactly two settlements and has exactly 2 victory points.
C5_SetupEndsWithTwoEach ==
    [][ (phase = "setupPlacement" /\ phase' = "awaitingRoll") =>
            \A p \in Range(players') :
                /\ Cardinality(settlements'[p]) = 2
                /\ victoryPoints'[p] = 2 ]_vars

\* C6: once the phase has left setupPlacement, no call (startGame and
\* addPlayer included) makes it setupPlacement again.
C6_SetupEnteredOnce ==
    phase # "setupPlacement" =>
        LET StaysOut(r) == r.st.phase # "setupPlacement"
        IN  EveryPlayCall(StaysOut) /\ EveryLifecycleCall(StaysOut)

\* The phase changes of the turn state machine.
PhaseChanges ==
    { <<"setupPlacement", "awaitingRoll">>,
      <<"awaitingRoll", "awaitingActions">>,
      <<"awaitingRoll", "awaitingRobberMove">>,
      <<"awaitingRobberMove", "awaitingActions">>,
      <<"awaitingActions", "awaitingRoll">> }

C8_AddPlayerOnlyBeforeStart ==
    turn >= 1 =>
        \A id \in PlayerIds :
            addPlayer(id).ret = "error" /\ addPlayer(id).st = Engine

C10_PlaceInitialSettlement ==
    \A p \in PlayerIds :
    \A n \in NodeInputs \cup {m \in DOMAIN nodeNeighbors : HasOwnedNeighbor(m)} :
        LET r == placeInitialSettlement(p, n)
        IN  IF \/ phase # "setupPlacement"
               \/ p \notin Range(players)
               \/ Owned(n)
               \/ HasOwnedNeighbor(n)
            THEN r.ret = "error" /\ r.st = Engine
            ELSE /\ r.ret = "ok"
                 /\ r.st.nodeOwnership[n] = p
                 /\ \A m \in NodeInputs \ {n} :
                        m \in DOMAIN nodeOwnership =>
                            r.st.nodeOwnership[m] = nodeOwnership[m]
                 /\ r.st.settlements = [settlements EXCEPT ![p] = @ \cup {n}]
                 /\ r.st.victoryPoints = [victoryPoints EXCEPT ![p] = @ + 1]

\* In setup, two settlements are placed, a player id is still unknown, and
\* the free node N16 has an owned neighbor.
C10_Witness ==
    /\ phase = "setupPlacement"
    /\ placed = 2
    /\ Owned(13) /\ ~Owned(16) /\ HasOwnedNeighbor(16)
    /\ "C" \notin Range(players)

\* C11: the advisory query and the enforced placement agree.  For every node
\* id n (of the board or not), n is in getAvailableSettlementSpots() iff
\* placeInitialSettlement(p, n) succeeds (in setupPlacement, p a known
\* player), and iff buildSettlementAt(p, n) returns true (in awaitingActions,
\* p a known player able to pay).
C11_SpotsAgreeWithPlacement ==
    \A n \in DOMAIN nodeOwnership \cup NodeInputs :
    \A p \in Range(players) :
        /\ phase = "setupPlacement" =>
               (n \in getAvailableSettlementSpots
                    <=> placeInitialSettlement(p, n).ret = "ok")
        /\ (phase = "awaitingActions"
                /\ hasResources(resources[p], SettlementCost)) =>
               (n \in getAvailableSettlementSpots
                    <=> buildSettlementAt(p, n).ret = "true")

\* Every pair of dice.
AllDice == (1..6) \X (1..6)

\* C12: rollAndDistribute called in a phase other than awaitingRoll raises an
\* error, does not request dice, and changes no field of the engine,
\* whatever dice the service would have returned.
C12_RollOnlyWhenAwaitingRoll ==
    phase # "awaitingRoll" =>
        /\ ~RequestsDice
        /\ \A d \in AllDice :
               LET r == rollAndDistribute(d[1], d[2])
               IN  r.ret = "error" /\ r.st = Engine

\* The roll of the first turn has produced cards and the turn is not over:
\* a second roll is not allowed.
C12_Witness ==
    /\ phase = "awaitingActions"
    /\ turn = 1
    /\ \E p \in Range(players) : bundleCount(resources[p]) > 0

\* The cards of kind r that the first n players hold in hands.
RECURSIVE HandsTotalIn(_, _, _)
HandsTotalIn(hands, r, n) ==
    IF n = 0 THEN 0 ELSE hands[players[n]][r] + HandsTotalIn(hands, r, n - 1)

\* The dice that add up to seven.
SevenDice == {d \in AllDice : d[1] + d[2] = 7}

\* C13: discard on seven.  When rollAndDistribute resolves with total 7,
\* every player holding at least 8 cards loses exactly floor(total/2) cards
\* (and gains none), every player holding 7 or fewer keeps the hand, the bank
\* receives exactly the cards lost (so nothing is produced), the phase becomes
\* awaitingRobberMove, and nothing else changes.
C13_DiscardOnSeven ==
    phase = "awaitingRoll" =>
        \A d \in SevenDice :
            LET r     == rollAndDistribute(d[1], d[2])
                after == r.st.resources
                N     == Len(players)
            IN  /\ r.ret = "ok"
                /\ DOMAIN after = DOMAIN resources
                /\ \A p \in Range(players) :
                       LET total == bundleCount(resources[p])
                       IN  IF total >= 8
                           THEN /\ bundleCount(after[p]) = total - (total \div 2)
                                /\ \A k \in Resources :
                                       after[p][k] <= resources[p][k]
                           ELSE after[p] = resources[p]
                /\ \A k \in Resources :
                       r.st.bank[k] =
                           bank[k] + HandsTotalIn(resources, k, N)
                                   - HandsTotalIn(after, k, N)
                /\ r.st.phase = "awaitingRobberMove"
                /\ r.st = [Engine EXCEPT !.resources = after,
                                         !.bank = r.st.bank,
                                         !.phase = r.st.phase]

\* Before a roll, one player holds exactly 9 cards and another holds between
\* 1 and 7.
C13_Witness ==
    /\ phase = "awaitingRoll"
    /\ \E p, q \in Range(players) :
           /\ bundleCount(resources[p]) = 9
           /\ bundleCount(resources[q]) \in 1..7

\* The tiles that pay a card of kind k on a roll of t: the tile carries t,
\* does not carry the robber, yields k, and has corner nodes.
ProducingTiles(k, t) ==
    {i \in DOMAIN tiles :
        /\ tiles[i].numberToken = t
        /\ tiles[i].id # robberOn
        /\ tiles[i].resource = k
        /\ tiles[i].id \in DOMAIN tileToNodes}

\* The (tile, node) pairs that pay player p one card of kind k on a roll of
\* t: the tile carries t, does not carry the robber, yields k, touches the
\* node, and the node is owned by p.
ProducingPairs(p, k, t) ==
    {pr \in ProducingTiles(k, t)
                \X {n \in DOMAIN nodeOwnership : nodeOwnership[n] = p} :
        pr[2] \in Range(tileToNodes[tiles[pr[1]].id])}

\* What the first n players are due of kind k on a roll of t.
RECURSIVE DueTotal(_, _, _)
DueTotal(k, t, n) ==
    IF n = 0 THEN 0
    ELSE Cardinality(ProducingPairs(players[n], k, t)) + DueTotal(k, t, n - 1)

\* One pair of dice for each total other than 7.
ProducingDice == {d \in AllDice \ SevenDice : d[1] = 1 \/ d[2] = 6}

\* C14: production.  When rollAndDistribute resolves with a total t other
\* than 7 and the bank holds at least what is due of every kind, every player
\* gains of every kind exactly the number of producing pairs, the bank loses
\* the same amounts, the robber's tile and the desert produce nothing, the
\* phase becomes awaitingActions, and nothing else changes.
C14_Production ==
    phase = "awaitingRoll" =>
        \A d \in ProducingDice :
            LET t   == d[1] + d[2]
                N   == Len(players)
                due == [k \in Resources |-> DueTotal(k, t, N)]
            IN  (\A k \in Resources : bank[k] >= due[k]) =>
                    LET r == rollAndDistribute(d[1], d[2])
                    IN  /\ r.ret = "ok"
                        /\ r.st.resources =
                             [p \in DOMAIN resources |->
                                 [k \in Resources |->
                                     resources[p][k]
                                         + Cardinality(ProducingPairs(p, k, t))]]
                        /\ r.st.bank = [k \in Resources |-> bank[k] - due[k]]
                        /\ r.st.phase = "awaitingActions"
                        /\ r.st = [Engine EXCEPT !.resources = r.st.resources,
                                                 !.bank = r.st.bank,
                                                 !.phase = r.st.phase]

\* Before a roll in the second turn, the robber stands on T3 (Brick, 6), and
\* nodes of T3 and of T11 (Wool, 4) are owned.
C14_Witness ==
    /\ phase = "awaitingRoll"
    /\ turn = 2
    /\ robberOn = 3
    /\ Owned(13) /\ Owned(17)

\* The ids of the tiles of the board.
BoardTileIds == {tiles[i].id : i \in DOMAIN tiles}

\* C15: moveRobber with a tile id that is not on the board raises an error
\* and changes nothing; with a tile id on the board the robber tile becomes
\* that tile, and the phase becomes awaitingActions if it was
\* awaitingRobberMove (theft or not) and is left unchanged otherwise.  For
\* every victim argument and every card the theft can pick.
C15_MoveRobber ==
    LET ids   == BoardTileIds
        ts    == ids \cup TileInputs \cup {Len(tiles) + 1}
        after == IF phase = "awaitingRobberMove"
                 THEN "awaitingActions" ELSE phase
    IN  \A v \in FirstInputs :
        \A c \in CardInputs(v) :
        \A t \in ts :
            LET r == moveRobber(t, v, c)
            IN  IF t \notin ids
                THEN r.ret = "error" /\ r.st = Engine
                ELSE /\ r.ret = "ok"
                     /\ r.st.robberOn = t
                     /\ r.st.phase = after

\* A seven has been rolled while the robber stands on T3, where an earlier
\* call moved it.
C15_Witness ==
    /\ phase = "awaitingRobberMove"
    /\ robberOn = 3

\* C16: theft.  moveRobber(tile, victim) with a known victim other than the
\* current player who holds a card moves exactly one card, of a kind the
\* victim held, from the victim to the current player, changes no other hand
\* and not the bank, and reports from, to and that kind; with a victim who
\* holds no card, or an unknown or absent victim id, no ledger changes and no
\* theft is reported.
C16_Theft ==
    \A t \in TileInputs \cap BoardTileIds :
    \A v \in FirstInputs :
    \A c \in CardInputs(v) :
        LET r   == moveRobber(t, v, c)
            rep == theftReport(v, c)
        IN  IF v \in Range(players) /\ bundleCount(resources[v]) >= 1
            THEN v # currentPlayer =>
                     /\ resources[v][c] >= 1
                     /\ r.st.resources =
                            [resources EXCEPT ![v][c] = @ - 1,
                                              ![currentPlayer][c] = @ + 1]
                     /\ bundleCount(r.st.resources[v])
                            = bundleCount(resources[v]) - 1
                     /\ bundleCount(r.st.resources[currentPlayer])
                            = bundleCount(resources[currentPlayer]) + 1
                     /\ r.st.bank = bank
                     /\ rep = [from |-> v, to |-> currentPlayer, resource |-> c]
            ELSE /\ r.st.resources = resources
                 /\ r.st.bank = bank
                 /\ rep = Null

\* After a seven, B is to move the robber and holds no card, and A holds
\* cards of two kinds.
C16_Witness ==
    /\ phase = "awaitingRobberMove"
    /\ currentPlayer = "B"
    /\ HasPlayer("A")
    /\ Cardinality(victimCards("A")) >= 2
    /\ bundleCount(resources["B"]) = 0

\* The kinds a settlement is paid with.
PaidKinds == {"Brick", "Lumber", "Wool", "Grain"}

\* C17: buildSettlementAt returns false, raises no error and changes nothing
\* when the phase is not awaitingActions, the node is owned, a neighbor of
\* the node is owned, or the player does not hold the full cost.
C17_BuildFailsWithFalse ==
    \A p \in Range(players) :
    \A n \in NodeInputs \cup {m \in DOMAIN nodeNeighbors : HasOwnedNeighbor(m)} :
        ( \/ phase # "awaitingActions"
          \/ Owned(n)
          \/ HasOwnedNeighbor(n)
          \/ \E k \in PaidKinds : resources[p][k] < 1 )
        => LET r == buildSettlementAt(p, n)
           IN  r.ret = "false" /\ r.st = Engine

\* C18: a successful buildSettlementAt(p, n) takes exactly 1 Brick, Lumber,
\* Wool and Grain from p and gives them to the bank, leaves Ore and every
\* other hand unchanged, makes p the owner of n and of no other node, adds
\* exactly 1 victory point to p only, and leaves phase, turn order, current
\* player, turn and robber unchanged.
C18_BuildEffects ==
    \A p \in PlayerIds :
    \A n \in NodeInputs :
        LET r == buildSettlementAt(p, n)
        IN  r.ret = "true" =>
                /\ r.st.resources =
                     [resources EXCEPT ![p] =
                         [k \in Resources |->
                             IF k \in PaidKinds THEN @[k] - 1 ELSE @[k]]]
                /\ r.st.bank =
                     [k \in Resources |->
                         IF k \in PaidKinds THEN bank[k] + 1 ELSE bank[k]]
                /\ r.st.nodeOwnership[n] = p
                /\ \A m \in DOMAIN nodeOwnership \ {n} :
                       r.st.nodeOwnership[m] = nodeOwnership[m]
                /\ r.st.settlements = [settlements EXCEPT ![p] = @ \cup {n}]
                /\ n \notin settlements[p]
                /\ r.st.victoryPoints = [victoryPoints EXCEPT ![p] = @ + 1]
                /\ r.st.phase = phase
                /\ r.st.currentPlayerOrder = currentPlayerOrder
                /\ r.st.currentIdx = currentIdx
                /\ r.st.turn = turn
                /\ r.st.robberOn = robberOn
                /\ r.st.players = players

\* A settlement has been built on N52, the third of its owner, in a turn
\* that is still open.
C18_Witness ==
    /\ phase = "awaitingActions"
    /\ Owned(52)
    /\ victoryPoints[nodeOwnership[52]] = 3

\* C19: maritimeTrade called in setupPlacement, awaitingRoll or
\* awaitingRobberMove fails, performs no trade and leaves every hand and the
\* bank unchanged, also when the trade itself is valid.
C19_TradeOnlyInActions ==
    phase # "awaitingActions" =>
        \A p \in PlayerIds, g \in GiveInputs, rc \in ReceiveInputs :
            LET r == maritimeTrade(p, g, rc)
            IN  /\ r.ret \in {"false", "error"}
                /\ r.st.resources = resources
                /\ r.st.bank = bank

\* C20: nextPlayer raises an error and changes nothing when the phase is not
\* awaitingActions; otherwise the current index becomes (index + 1) mod N,
\* the turn counter grows by exactly 1, the phase becomes awaitingRoll and
\* nothing else changes; so, once a started game has left setup, the player
\* to move in turn k is order[(k - 1) mod N].
C20_NextPlayer ==
    /\ LET r == nextPlayer
       IN  IF phase # "awaitingActions"
           THEN r.ret = "error" /\ r.st = Engine
           ELSE /\ r.ret = "ok"
                /\ r.st = [Engine EXCEPT
                              !.currentIdx =
                                  (currentIdx + 1) % Len(currentPlayerOrder),
                              !.turn = turn + 1,
                              !.phase = "awaitingRoll"]
    /\ (setupOrder # <<>> /\ phase # "setupPlacement") =>
           LET N == Len(currentPlayerOrder)
           IN  currentPlayer = currentPlayerOrder[((turn - 1) % N) + 1]

\* The kinds a bundle names: its entries other than 0.
Names(b) == {k \in Resources : b[k] # 0}

\* The shape of a 4:1 trade: give names one kind, a positive multiple of 4 of
\* it, and receive names one kind, a quarter of that quantity of it.
ShapeOk(give, receive) ==
    /\ Cardinality(Names(give)) = 1
    /\ Cardinality(Names(receive)) = 1
    /\ LET gq == give[CHOOSE k \in Names(give) : TRUE]
           rq == receive[CHOOSE k \in Names(receive) : TRUE]
       IN  gq > 0 /\ gq % 4 = 0 /\ 4 * rq = gq

\* give and receive bundles of every shape: one or two kinds, quantities that
\* are and are not multiples of 4, negative quantities.
ShapeGives ==
    GiveInputs \cup
    { Bundle([Brick |-> 8]), Bundle([Brick |-> 2]), Bundle([Brick |-> 4, Lumber |-> 4]),
      Bundle([Brick |-> -4]), EMPTY_BUNDLE }

ShapeReceives ==
    ReceiveInputs \cup
    { Bundle([Wool |-> 1, Ore |-> 1]), Bundle([Wool |-> 1, Ore |-> -1]),
      Bundle([Wool |-> -1]), EMPTY_BUNDLE }

\* C21: trade shape validity.  tradeWithBank returns false and changes
\* neither ledger whenever give or receive names more than one kind, give's
\* quantity is not a positive multiple of 4, or receive's quantity is not a
\* quarter of give's.
C21_TradeShape ==
    \A p \in Range(players), g \in ShapeGives, r \in ShapeReceives :
        ~ShapeOk(g, r) =>
            tradeWithBank(resources[p], bank, g, r) = <<FALSE, resources[p], bank>>

\* C22: a trade whose receive bundle names the kind its give bundle names is
\* rejected and changes neither ledger.
C22_TradeKindsDiffer ==
    \A p \in Range(players), k \in Resources, q \in {1, 2} :
        tradeWithBank(resources[p], bank, Bundle(k :> 4 * q), Bundle(k :> q))
            = <<FALSE, resources[p], bank>>

\* The point of the board at corner ci (0..5) of tile t, in cube coordinates
\* scaled by 3: the center and a third of the way to the two neighbor centers.
CornerPoint(t, ci) ==
    LET c == axialToCube(generateAxialCenters[t])
        o == CORNERS[ci + 1]
    IN  <<3 * c[1] + o[1], 3 * c[2] + o[2], 3 * c[3] + o[3]>>

\* Tiles whose hexes have an edge in common.
EdgeAdjacent(t1, t2) ==
    LET a == generateAxialCenters[t1]
        b == generateAxialCenters[t2]
    IN  <<a[1] - b[1], a[2] - b[2]>> \in
            {<<1, 0>>, <<-1, 0>>, <<0, 1>>, <<0, -1>>, <<1, -1>>, <<-1, 1>>}

\* The tiles that touch node n.
TilesAt(n) == {t \in DOMAIN tileToNodes : n \in Range(tileToNodes[t])}

\* C27: the board has exactly 54 nodes, each with 1 to 3 adjacent tiles, and
\* the neighbor relation is symmetric.
C27_GeometryBuilder ==
    /\ Cardinality(DOMAIN nodeNeighbors) = 54
    /\ \A n \in DOMAIN nodeNeighbors : Cardinality(TilesAt(n)) \in 1..3
    /\ \A a \in DOMAIN nodeNeighbors : \A b \in nodeNeighbors[a] :
           b \in DOMAIN nodeNeighbors /\ a \in nodeNeighbors[b]

\* C28: corner deduplication.  Two corners of two tiles have the same key
\* (and so the same node id) iff they are the same point of the board; any
\* two edge-adjacent tiles share exactly two nodes, other tiles share none,
\* and every tile touches exactly six distinct nodes.
C28_CornerDeduplication ==
    /\ \A t1, t2 \in TileIds : \A c1, c2 \in 0..5 :
           (TileCornerKey(t1, c1) = TileCornerKey(t2, c2))
               <=> (CornerPoint(t1, c1) = CornerPoint(t2, c2))
    /\ \A t \in DOMAIN tileToNodes :
           Len(tileToNodes[t]) = 6 /\ Cardinality(Range(tileToNodes[t])) = 6
    /\ \A t1, t2 \in DOMAIN tileToNodes :
           t1 # t2 =>
               Cardinality(Range(tileToNodes[t1]) \cap Range(tileToNodes[t2]))
                   = IF EdgeAdjacent(t1, t2) THEN 2 ELSE 0


(***************************************************************************)
(* DiceApiRandomService.                                                   *)
(***************************************************************************)
\* A value of the payload: a JSON number, held as twice its value so that
\* halves are numbers too, or a JSON string.
JsonNumber(twice) == [type |-> "number", twice |-> twice]

JsonString == [type |-> "string", twice |-> 0]

\* Number.isInteger(n) && n >= 1 && n <= 6, without the range test, to
\* compare with IsDie.
IsDieAnyInteger(v) == v.type = "number" /\ v.twice % 2 = 0

\* Number.isInteger(n) && n >= 1 && n <= 6
IsDie(v) ==
    /\ v.type = "number"
    /\ v.twice % 2 = 0
    /\ v.twice >= 2
    /\ v.twice <= 12

\* What fetch and res.json() can come to: fetch rejects; the response is not
\* ok; the body is not JSON; the body is JSON without a dice array (isArray
\* FALSE); the body has a dice array.
DiceResponses ==
    { [fetched |-> FALSE, ok |-> FALSE, json |-> FALSE, isArray |-> FALSE, dice |-> <<>>] }
    \cup { [fetched |-> TRUE, ok |-> FALSE, json |-> TRUE, isArray |-> TRUE,
            dice |-> <<JsonNumber(6), JsonNumber(8)>>] }
    \cup { [fetched |-> TRUE, ok |-> TRUE, json |-> FALSE, isArray |-> FALSE, dice |-> <<>>] }
    \cup { [fetched |-> TRUE, ok |-> TRUE, json |-> TRUE, isArray |-> FALSE, dice |-> <<>>] }
    \cup { [fetched |-> TRUE, ok |-> TRUE, json |-> TRUE, isArray |-> TRUE, dice |-> d] :
             d \in { <<>>,
                     <<JsonNumber(6)>>,
                     <<JsonNumber(0), JsonNumber(6)>>,
                     <<JsonNumber(6), JsonNumber(14)>>,
                     <<JsonNumber(5), JsonNumber(6)>>,
                     <<JsonNumber(-2), JsonNumber(6)>>,
                     <<JsonString, JsonNumber(6)>>,
                     <<JsonNumber(6), JsonNumber(6)>>,
                     <<JsonNumber(4), JsonNumber(4), JsonNumber(14)>>,
                     <<JsonNumber(6), JsonNumber(8)>>,
                     <<JsonNumber(2), JsonNumber(2)>>,
                     <<JsonNumber(12), JsonNumber(12)>> } }

\* Math.floor(Math.random() * 6)
FloorRandomSix == 0..5

\* The try block of rollDice: whether it returns, and the dice it returns.
TryApi(res) ==
    IF ~res.fetched THEN [returned |-> FALSE, dice |-> <<>>]
    ELSE IF ~res.ok THEN [returned |-> FALSE, dice |-> <<>>]
    ELSE IF ~res.json THEN [returned |-> FALSE, dice |-> <<>>]
    ELSE IF ~res.isArray \/ Len(res.dice) < 2 THEN [returned |-> FALSE, dice |-> <<>>]
    ELSE IF ~(IsDie(res.dice[1]) /\ IsDie(res.dice[2]))
         THEN [returned |-> FALSE, dice |-> <<>>]
    ELSE [returned |-> TRUE,
          dice |-> <<res.dice[1].twice \div 2, res.dice[2].twice \div 2>>]

\* rollDice(), given what the request comes to and the two local draws.
rollDice(res, random1, random2) ==
    LET api == TryApi(res)
    IN  IF api.returned
        THEN [dice1 |-> api.dice[1], dice2 |-> api.dice[2],
              total |-> api.dice[1] + api.dice[2], source |-> "api"]
        ELSE LET dice1 == 1 + random1
                 dice2 == 1 + random2
             IN  [dice1 |-> dice1, dice2 |-> dice2, total |-> dice1 + dice2,
                  source |-> "local"]

(***************************************************************************)
(* distributeFor's return value.                                           *)
(***************************************************************************)
\* One visit of distributeFor's inner loop on <<bank, perPlayer>>.
ReportClaim(acc, claim) ==
    LET res       == claim[1]
        ownerId   == claim[2]
        bk        == acc[1]
        perPlayer == acc[2]
        available == bk[res]
        actual    == Min(1, available)
    IN  IF ~Truthy(ownerId) THEN acc
        ELSE IF available <= 0 THEN acc
        ELSE LET bundle == IF ownerId \in DOMAIN perPlayer
                           THEN perPlayer[ownerId] ELSE EMPTY_BUNDLE
             IN  << [bk EXCEPT ![res] = @ - actual],
                    [p \in DOMAIN perPlayer \cup {ownerId} |->
                        IF p = ownerId THEN inc(bundle, res, actual)
                        ELSE perPlayer[p]] >>

RECURSIVE ReportClaims(_, _)
ReportClaims(acc, claims) ==
    IF claims = <<>> THEN acc
    ELSE ReportClaims(ReportClaim(acc, Head(claims)), Tail(claims))

\* The perPlayer map distributeFor(numberToken) returns, which
\* rollAndDistribute hands on as gains.
gains(numberToken) ==
    ReportClaims(<<bank, <<>> >>, ClaimsFrom(1, numberToken))[2]

(***************************************************************************)
(* The game of two players on a bank the constructor was given.            *)
(***************************************************************************)
\* config.initialBank: the standard bank with its Brick and Wool set.
ConfigBanks ==
    { [initialBank EXCEPT !["Brick"] = b, !["Wool"] = w] :
          b \in {1, 2, InitialBank}, w \in {0, InitialBank} }

BankInit ==
    (\E b \in ConfigBanks : NewCatanEngine(b)) /\ NoStore /\ NoFetch

\* give / receive arguments of maritimeTrade on such a bank.
BankGives ==
    { Bundle([Brick |-> 4]),
      Bundle([Brick |-> 4, Wool |-> -20]) }

BankReceives ==
    { Bundle([Wool |-> 1]),
      Bundle([Ore |-> 1]) }

\* What the service meets in this game: every outcome of the request with
\* local draws of 0, and a request that fails with local draws of every total.
ServiceInputs ==
    { in \in DiceResponses \X FloorRandomSix \X {0, 5} :
          in[1].fetched => (in[2] = 0 /\ in[3] = 0) }

RollWithService(res, random1, random2) ==
    LET roll == rollDice(res, random1, random2)
    IN  Call(rollAndDistribute(roll.dice1, roll.dice2))

BankNext ==
    \/ \E id \in AddPlayerInputs(2) : AddPlayer(id)
    \/ turn = 0 /\ Len(players) = 2 /\ StartGame(Null)
    \/ \E n \in PlaceNodes : turn > 0 /\ PlaceInitialSettlement(currentPlayer, n)
    \/ \E in \in ServiceInputs : RollWithService(in[1], in[2], in[3])
    \/ NextPlayer
    \/ MoveRobber(3, Null)
    \/ \E p \in PlayerIds, g \in BankGives, r \in BankReceives :
           MaritimeTrade(p, g, r)

BankSpec == BankInit /\ [][BankNext]_vars

\* C23: a trade of 4q cards of one kind for q cards of another kind returns
\* true exactly when the player holds the 4q cards and the bank holds the q
\* cards; then the player loses exactly the one and gains exactly the other,
\* the bank the reverse, and nothing else changes; when it returns false no
\* field changes.
C23_TradeAllOrNothing ==
    \A p \in Range(players) :
        \A g \in Resources, k \in Resources, q \in {1, 2} :
            g # k =>
                LET m     == maritimeTrade(p, Bundle(g :> 4 * q), Bundle(k :> q))
                    holds == resources[p][g] >= 4 * q /\ bank[k] >= q
                IN  IF holds
                    THEN /\ m.ret = "true"
                         /\ m.st = [Engine EXCEPT
                               !.resources[p] =
                                   [@ EXCEPT ![g] = @ - 4 * q, ![k] = @ + q],
                               !.bank = [@ EXCEPT ![g] = @ + 4 * q, ![k] = @ - q]]
                    ELSE m.ret = "false" /\ m.st = Engine

\* A player holds four Brick while the other does not, and the bank has Ore
\* to give but no Wool: trades for Ore are carried out, trades for Wool fail
\* for the bank's lack and the other player's fail for the player's.
C23_Witness ==
    /\ \E p \in Range(players) : resources[p]["Brick"] >= 4
    /\ \E p \in Range(players) : resources[p]["Brick"] < 4
    /\ bank["Wool"] = 0
    /\ bank["Ore"] >= 1

\* Every pair of local draws.
AllDraws == FloorRandomSix \X FloorRandomSix

\* C29: whatever the request comes to, rollDice returns two dice in 1..6 and
\* their sum; the result is tagged 'api' exactly when the response was
\* fetched, ok, JSON with a dice array of two or more values whose first two
\* are integers in 1..6, and then the dice are those two values; otherwise it
\* is the local draw, tagged 'local'.  Hence a rollAndDistribute called in
\* awaitingRoll returns and leaves awaitingRoll.
C29_DiceServiceNeverFails ==
    /\ \A res \in DiceResponses, u \in AllDraws :
           LET roll  == rollDice(res, u[1], u[2])
               valid ==
                   /\ res.fetched /\ res.ok /\ res.json /\ res.isArray
                   /\ Len(res.dice) >= 2
                   /\ \A i \in {1, 2} :
                          /\ res.dice[i].type = "number"
                          /\ res.dice[i].twice \in {2 * n : n \in 1..6}
           IN  /\ roll.dice1 \in 1..6
               /\ roll.dice2 \in 1..6
               /\ roll.total = roll.dice1 + roll.dice2
               /\ roll.source = IF valid THEN "api" ELSE "local"
               /\ valid => /\ 2 * roll.dice1 = res.dice[1].twice
                           /\ 2 * roll.dice2 = res.dice[2].twice
               /\ ~valid => roll.dice1 = 1 + u[1] /\ roll.dice2 = 1 + u[2]
    /\ phase = "awaitingRoll" =>
           \A roll \in {rollDice(res, u[1], u[2]) :
                            res \in DiceResponses, u \in AllDraws} :
               LET r == rollAndDistribute(roll.dice1, roll.dice2)
               IN  r.ret = "ok" /\ r.st.phase # "awaitingRoll"

\* Before the roll of the second turn, after a roll that dealt cards.
C29_Witness ==
    /\ phase = "awaitingRoll"
    /\ turn = 2
    /\ \E p \in Range(players) : bundleCount(resources[p]) > 0

\* The claims for kind k on a roll of t, as <<position of the tile in the
\* tile list, position of the node in the tile's node list>>.
ClaimPositions(k, t) ==
    { pos \in (DOMAIN tiles) \X (1..6) :
          LET tile == tiles[pos[1]]
          IN  /\ tile.resource = k
              /\ tile.numberToken = t
              /\ tile.id # robberOn
              /\ pos[2] <= Len(tileToNodes[tile.id])
              /\ Owned(tileToNodes[tile.id][pos[2]]) }

\* Claim a comes before claim b in iteration order.
Earlier(a, b) == a[1] < b[1] \/ (a[1] = b[1] /\ a[2] < b[2])

\* The owner of the node of a claim.
ClaimOwner(pos) == nodeOwnership[tileToNodes[tiles[pos[1]].id][pos[2]]]

\* What C30 says of kind k and the dice d.
FirstCome(k, d) ==
    LET t == d[1] + d[2]
        r == rollAndDistribute(d[1], d[2])
        reported == gains(t)
        hands == r.st.resources
        after == r.st.bank
        claims == ClaimPositions(k, t)
        paid   == {c \in claims :
                      Cardinality({x \in claims : Earlier(x, c)}) < bank[k]}
    IN  /\ \A p \in Range(players) :
               hands[p][k] - resources[p][k] =
                   IF p \in DOMAIN reported THEN reported[p][k] ELSE 0
        /\ bank[k] < Cardinality(claims) =>
               /\ after[k] = 0
               /\ \A p \in Range(players) :
                      hands[p][k] - resources[p][k] =
                          Cardinality({c \in paid : ClaimOwner(c) = p})

\* C30: when before a roll of a total t other than 7 the bank holds fewer
\* cards of a kind than there are claims for it, the roll leaves the bank
\* with none of that kind, and every player gains one card for each of their
\* claims that has fewer claims before it, in iteration order, than the bank
\* held, and no other card of the kind; the gains the roll reports are the
\* cards each hand gained.
C30_BankShortage ==
    phase = "awaitingRoll" =>
        \A d \in ProducingDice : \A k \in Resources \ {"Desert"} : FirstCome(k, d)

(***************************************************************************)
(* Views and snapshots.                                                    *)
(***************************************************************************)
\* [...this.tiles]: a new list of the engine's Tile objects.  A Tile object
\* is named by its place in the engine's list; tiles[i] is what it holds.
TileRefs == [i \in 1..Len(tiles) |-> i]

\* get currentPlayer() of the engine with the fields e.
currentPlayerOf(e) ==
    IF Len(e.currentPlayerOrder) = 0 THEN Null
    ELSE IF e.currentIdx + 1 \in DOMAIN e.currentPlayerOrder
            /\ e.currentPlayerOrder[e.currentIdx + 1] \in Range(e.players)
         THEN e.currentPlayerOrder[e.currentIdx + 1]
         ELSE Null

\* getPublicState() of the engine with the fields e and the tile list tl,
\* without the copies of the geometry (nodeAdjacentTiles, nodeAnchors).
PublicView(e, tl) ==
    [players |-> [i \in 1..Len(e.players) |->
                     [id |-> e.players[i],
                      victoryPoints |-> e.victoryPoints[e.players[i]]]],
     robberOn |-> e.robberOn,
     bank |-> [r \in Resources |-> e.bank[r]],
     tiles |-> tl,
     currentPlayerId |-> currentPlayerOf(e),
     turn |-> e.turn,
     phase |-> e.phase,
     nodeOwnership |-> [n \in DOMAIN e.nodeOwnership |-> e.nodeOwnership[n]]]

getPublicState == PublicView(Engine, TileRefs)

\* getPlayerResources(playerId); {} counts 0 of every kind.
getPlayerResources(playerId) ==
    IF HasPlayer(playerId) THEN [r \in Resources |-> resources[playerId][r]]
    ELSE EMPTY_BUNDLE

\* exportState() of the engine with the fields e and the tile list tl.
\* Array.from(p.settlements) lists the nodes of the set.
ExportOf(e, tl) ==
    [tiles |-> tl,
     bank |-> [r \in Resources |-> e.bank[r]],
     players |-> [i \in 1..Len(e.players) |->
                     [id |-> e.players[i],
                      resources |->
                          [r \in Resources |-> e.resources[e.players[i]][r]],
                      settlements |-> SortedSeq(e.settlements[e.players[i]]),
                      victoryPoints |-> e.victoryPoints[e.players[i]]]],
     order |-> e.currentPlayerOrder,
     idx |-> e.currentIdx,
     robberOn |-> e.robberOn,
     turn |-> e.turn,
     phase |-> e.phase,
     nodeOwnership |-> [n \in DOMAIN e.nodeOwnership |-> e.nodeOwnership[n]],
     setupRound |-> e.setupRound,
     setupDirection |-> e.setupDirection]

exportState == ExportOf(Engine, TileRefs)

\* The snake pointer of a new engine, <<setupRound, setupDirection>>, to
\* compare with importedSnake.
importedSnakeAsConstructed(snap) == <<1, 1>>

\* The "setup snake" assignments of importState.
importedSnake(snap) == <<snap.setupRound, snap.setupDirection>>

\* The player entry of a snapshot with the id.
SnapshotPlayer(snap, id) ==
    snap.players[CHOOSE i \in DOMAIN snap.players :
                     /\ snap.players[i].id = id
                     /\ \A j \in DOMAIN snap.players :
                            snap.players[j].id = id => j <= i]

\* The fields of the engine importState(snapshot, rng, trader) returns.
importState(snap) ==
    LET ids == {snap.players[i].id : i \in DOMAIN snap.players}
    IN  [players |-> [i \in 1..Len(snap.players) |-> snap.players[i].id],
         resources |->
             [id \in ids |->
                 [r \in Resources |-> SnapshotPlayer(snap, id).resources[r]]],
         settlements |->
             [id \in ids |-> Range(SnapshotPlayer(snap, id).settlements)],
         victoryPoints |-> [id \in ids |-> SnapshotPlayer(snap, id).victoryPoints],
         bank |-> snap.bank,
         currentPlayerOrder |-> snap.order,
         currentIdx |-> snap.idx,
         robberOn |-> snap.robberOn,
         turn |-> snap.turn,
         phase |-> snap.phase,
         setupRound |-> importedSnake(snap)[1],
         setupDirection |-> importedSnake(snap)[2],
         nodeOwnership |->
             [n \in DOMAIN snap.nodeOwnership |-> snap.nodeOwnership[n]]]

\* this.tiles of the imported engine: config.tiles, the snapshot's list.
importedTiles(snap) == [i \in 1..Len(snap.tiles) |-> tiles[snap.tiles[i]]]

(***************************************************************************)
(* The caller asks for views and snapshots, changes the objects it got,    *)
(* and goes on with an engine imported from its snapshot.                  *)
(***************************************************************************)
GetPublicState ==
    /\ view' = getPublicState
    /\ UNCHANGED <<storeVars, engineVars, boardVars, setupOrder, placed, handCopy,
                   snapshot, bankShared>>

GetPlayerResources(playerId) ==
    /\ handCopy' = getPlayerResources(playerId)
    /\ UNCHANGED <<storeVars, engineVars, boardVars, setupOrder, placed, view, snapshot,
                   bankShared>>

\* The new snapshot has a bank object of its own.
ExportState ==
    /\ snapshot' = exportState
    /\ bankShared' = FALSE
    /\ UNCHANGED <<storeVars, engineVars, boardVars, setupOrder, placed, view, handCopy>>

\* The caller replaces its engine by importState(snapshot, rng, trader).  The
\* constructor takes snapshot.bank as this.bank and seeds the geometry from
\* standard19Nodes again.
ImportState ==
    /\ snapshot # NoObject
    /\ Becomes(importState(snapshot))
    /\ tiles' = importedTiles(snapshot)
    /\ bankShared' = TRUE
    /\ view' = NoObject
    /\ handCopy' = NoObject
    /\ UNCHANGED <<storeVars, nodeNeighbors, tileToNodes, setupOrder, placed, snapshot>>

\* view.bank.Brick = 0
ChangeViewBank ==
    /\ view # NoObject
    /\ view' = [view EXCEPT !.bank["Brick"] = 0]
    /\ UNCHANGED <<storeVars, engineVars, boardVars, setupOrder, placed, handCopy,
                   snapshot, bankShared>>

\* view.nodeOwnership[N13] = 'Z'
ChangeViewOwnership ==
    /\ view # NoObject
    /\ view' = [view EXCEPT !.nodeOwnership[13] = "Z"]
    /\ UNCHANGED <<storeVars, engineVars, boardVars, setupOrder, placed, handCopy,
                   snapshot, bankShared>>

\* view.tiles.shift()
ChangeViewTileList ==
    /\ view # NoObject
    /\ Len(view.tiles) = Len(tiles)
    /\ view' = [view EXCEPT !.tiles = Tail(@)]
    /\ UNCHANGED <<storeVars, engineVars, boardVars, setupOrder, placed, handCopy,
                   snapshot, bankShared>>

\* view.tiles[2].numberToken = 4: an assignment to the Tile object, which is
\* the engine's.
ChangeViewTile ==
    /\ view # NoObject
    /\ Len(view.tiles) >= 3
    /\ tiles' = [tiles EXCEPT ![view.tiles[3]].numberToken = 4]
    /\ UNCHANGED <<storeVars, engineVars, nodeNeighbors, tileToNodes, setupOrder, placed,
                   callerVars>>

\* hand.Brick = 9, on the object getPlayerResources returned
ChangeHandCopy ==
    /\ handCopy # NoObject
    /\ handCopy' = [handCopy EXCEPT !["Brick"] = 9]
    /\ UNCHANGED <<storeVars, engineVars, boardVars, setupOrder, placed, view, snapshot,
                   bankShared>>

\* snapshot.bank.Brick = 0: an assignment to the bank object, which is the
\* engine's when the engine was imported from this snapshot.
ChangeSnapshotBank ==
    /\ snapshot # NoObject
    /\ snapshot' = [snapshot EXCEPT !.bank["Brick"] = 0]
    /\ bank' = IF bankShared THEN snapshot'.bank ELSE bank
    /\ UNCHANGED <<storeVars, players, resources, settlements, victoryPoints,
                   currentPlayerOrder, currentIdx, robberOn, turn, phase,
                   setupRound, setupDirection, nodeOwnership, boardVars,
                   setupOrder, placed, view, handCopy, bankShared>>

\* snapshot.players[0].resources.Brick = 9
ChangeSnapshotHand ==
    /\ snapshot # NoObject
    /\ snapshot.players # <<>>
    /\ snapshot' = [snapshot EXCEPT !.players[1].resources["Brick"] = 9]
    /\ UNCHANGED <<storeVars, engineVars, boardVars, setupOrder, placed, view, handCopy,
                   bankShared>>

\* The first node of SetupNodeList that is free and far enough from every
\* owned node.
NextPlaceNode ==
    LET free == {i \in DOMAIN SetupNodeList :
                    /\ ownerOf(SetupNodeList[i]) = Null
                    /\ ~TooClose(SetupNodeList[i])}
    IN  {SetupNodeList[i] : i \in {j \in free : \A k \in free : j <= k}}

\* Dice of the caller's games, by total: 4, 6 and 6, 7.
ViewDiceInputs == {<<2, 2>>, <<3, 3>>}

SnapshotDiceInputs == {<<3, 3>>, <<3, 4>>}

\* The caller asks for a view and a copy of a hand after its engine calls,
\* as the store does, and changes them.
ViewNext ==
    \/ \E id \in AddPlayerInputs(2) : AddPlayer(id)
    \/ turn = 0 /\ Len(players) = 2 /\ StartGame(Null)
    \/ \E n \in NextPlaceNode : turn > 0 /\ PlaceInitialSettlement(currentPlayer, n)
    \/ \E d \in ViewDiceInputs : RollAndDistribute(d)
    \/ NextPlayer
    \/ GetPublicState
    \/ GetPlayerResources("A")
    \/ ChangeViewBank
    \/ ChangeViewOwnership
    \/ ChangeViewTileList
    \/ ChangeViewTile
    \/ ChangeHandCopy

ViewSpec == Init /\ [][ViewNext]_vars

\* The caller takes one snapshot, changes it, and goes on with an engine
\* imported from it.
SnapshotNext ==
    \/ \E id \in AddPlayerInputs(2) : AddPlayer(id)
    \/ turn = 0 /\ Len(players) = 2 /\ StartGame(Null)
    \/ \E n \in NextPlaceNode : turn > 0 /\ PlaceInitialSettlement(currentPlayer, n)
    \/ \E d \in SnapshotDiceInputs : RollAndDistribute(d)
    \/ NextPlayer
    \/ MoveRobber(3, Null)
    \/ snapshot = NoObject /\ ExportState
    \/ ~bankShared /\ ImportState
    \/ ChangeSnapshotBank
    \/ ChangeSnapshotHand

SnapshotSpec == Init /\ [][SnapshotNext]_vars

\* C24: in every state, the engine imported from the engine's snapshot has
\* the same public view and the same hands as the engine, and the same value
\* in every field and the same tile list, the setup snake's round and
\* direction among them: the calls being functions of the fields, any calls
\* made on the two return the same and leave the same states.
C24_SnapshotRoundTrip ==
    LET snap == exportState
        eng  == importState(snap)
    IN  /\ PublicView(eng, snap.tiles) = getPublicState
        /\ \A p \in PlayerIds :
               (IF p \in Range(eng.players) THEN eng.resources[p]
                ELSE EMPTY_BUNDLE) = getPlayerResources(p)
        /\ eng = Engine
        /\ importedTiles(snap) = tiles

\* An engine imported from a snapshot of the second setup round has finished
\* the setup and is in its first turn.
C24_Witness ==
    /\ bankShared
    /\ snapshot.phase = "setupPlacement"
    /\ snapshot.setupRound = 2
    /\ phase = "awaitingRoll"
    /\ turn = 1

\* A change the caller makes to an object getPublicState or
\* getPlayerResources returned.
ChangeOfView ==
    \/ ChangeViewBank
    \/ ChangeViewOwnership
    \/ ChangeViewTileList
    \/ ChangeViewTile
    \/ ChangeHandCopy

\* C25: a change of an object that getPublicState or getPlayerResources
\* returned (the bank, the tile list, a tile, the ownership map, a hand)
\* changes no field of the engine.
C25_ViewsAreCopies ==
    [][ChangeOfView => UNCHANGED <<engineVars, boardVars>>]_vars

\* A call of the snapshot game that can change the engine's bank.
BankCall ==
    \/ \E d \in SnapshotDiceInputs : RollAndDistribute(d)
    \/ MoveRobber(3, Null)

\* C26: a roll or a robber move on an engine changes no snapshot the caller
\* holds, the one the engine was imported from included, and so not the bank
\* of another engine imported from that snapshot.
C26_ExclusiveBank ==
    [][BankCall => snapshot' = snapshot]_vars

(***************************************************************************)
(* The losses discardEvenly and handleRobberSeven return.                  *)
(***************************************************************************)
\* One pass of discardEvenly's for loop from kind i on, with the bundle it
\* returns: st = <<hand, lost, remaining, did>>.
RECURSIVE LostPass(_, _)
LostPass(st, i) ==
    IF i > Len(DiscardOrder) THEN st
    ELSE LET res == DiscardOrder[i]
         IN  IF st[1][res] > 0 /\ st[3] > 0
             THEN LostPass(<< [st[1] EXCEPT ![res] = @ - 1],
                              inc(st[2], res, 1),
                              st[3] - 1, TRUE >>, i + 1)
             ELSE LostPass(st, i + 1)

\* The while loop of discardEvenly on <<hand, lost>>.
RECURSIVE LostLoop(_, _, _)
LostLoop(hand, lost, remaining) ==
    IF remaining > 0
    THEN LET st == LostPass(<<hand, lost, remaining, FALSE>>, 1)
         IN  IF ~st[4] THEN lost
             ELSE LostLoop(st[1], st[2], st[3])
    ELSE lost

\* The bundle discardEvenly(p, toDiscard) returns.
lostBy(hand, toDiscard) == LostLoop(hand, EMPTY_BUNDLE, toDiscard)

\* The map handleRobberSeven returns, which rollAndDistribute hands on as
\* discards.
discards ==
    LET due(p)  == bundleCount(resources[p]) \div 2
        lost(p) == lostBy(resources[p], due(p))
    IN  [p \in {q \in Range(players) :
                   /\ MustDiscard(bundleCount(resources[q]))
                   /\ bundleCount(lost(q)) > 0} |-> lost(p)]

(***************************************************************************)
(* A saved game: the engine importState returns for a snapshot taken at    *)
(* the first roll, with the hands the snapshot gives the two players.      *)
(***************************************************************************)
MaxCards == 2

\* Hands of up to MaxCards cards of every kind.
HandInputs ==
    { [r \in Resources |-> IF r = "Desert" THEN 0 ELSE h[r]] :
          h \in [Resources \ {"Desert"} -> 0..MaxCards] }

\* The hands of the second player: none, and eight and nine cards.
OtherHandInputs ==
    { EMPTY_BUNDLE, Bundle([Brick |-> 8]), Bundle([Ore |-> 2, Wool |-> 7]) }

SavedGame(handA, handB) ==
    [tiles |-> [i \in 1..Len(standard19Tiles) |-> i],
     bank |-> [r \in Resources |-> initialBank[r] - handA[r] - handB[r]],
     players |->
         << [id |-> "A", resources |-> handA, settlements |-> <<13, 32>>,
             victoryPoints |-> 2],
            [id |-> "B", resources |-> handB, settlements |-> <<15, 17>>,
             victoryPoints |-> 2] >>,
     order |-> <<"A", "B">>,
     idx |-> 0,
     robberOn |-> 10,
     turn |-> 1,
     phase |-> "awaitingRoll",
     nodeOwnership |->
         [n \in DOMAIN nodeNeighbors |->
             IF n \in {13, 32} THEN "A"
             ELSE IF n \in {15, 17} THEN "B" ELSE Null],
     setupRound |-> 2,
     setupDirection |-> -1]

\* The engine's fields are those of e.
Holds(e) ==
    /\ players = e.players
    /\ resources = e.resources
    /\ settlements = e.settlements
    /\ victoryPoints = e.victoryPoints
    /\ bank = e.bank
    /\ currentPlayerOrder = e.currentPlayerOrder
    /\ currentIdx = e.currentIdx
    /\ robberOn = e.robberOn
    /\ turn = e.turn
    /\ phase = e.phase
    /\ setupRound = e.setupRound
    /\ setupDirection = e.setupDirection
    /\ nodeOwnership = e.nodeOwnership

\* CatanEngine.importState(snapshot, rng, trader) of a saved game whose
\* snapshot the caller does not keep.
SavedInit ==
    /\ tiles = standard19Tiles
    /\ nodeNeighbors = neighborNodes
    /\ tileToNodes =
         [t \in TileIds |-> SortedSeq({k \in NodeIds : t \in adjacentTiles[k]})]
    /\ \E handA \in HandInputs, handB \in OtherHandInputs :
           Holds(importState(SavedGame(handA, handB)))
    /\ setupOrder = <<"A", "B">>
    /\ placed = 4
    /\ view = NoObject
    /\ handCopy = NoObject
    /\ snapshot = NoObject
    /\ bankShared = FALSE
    /\ NoStore
    /\ NoFetch

\* Dice of the saved game, by total: 6, 7.
SavedDiceInputs == {<<3, 3>>, <<3, 4>>}

SavedNext ==
    \/ \E d \in SavedDiceInputs : RollAndDistribute(d)
    \/ MoveRobber(3, Null)
    \/ NextPlayer

SavedSpec == SavedInit /\ [][SavedNext]_vars

\* The place of a kind in the fixed order Brick, Lumber, Wool, Grain, Ore.
KindPlace(k) == IndexOf(ResourceType, k)

\* C31: on a roll of 7 every player with eight or more cards loses exactly
\* half of them, rounded down, and the others lose none; for any two kinds,
\* a kind that lost two or more cards fewer than another is used up, and a
\* kind that lost one card fewer than another is used up or comes later in
\* the order Brick, Lumber, Wool, Grain, Ore; the discards the roll reports
\* are, player by player, the cards the hand lost, with no entry for a player
\* who lost none.
C31_DiscardRoundRobin ==
    phase = "awaitingRoll" =>
        LET r        == rollAndDistribute(3, 4)
            reported == discards
            kinds    == Resources \ {"Desert"}
        IN  \A p \in Range(players) :
                LET before == resources[p]
                    after  == r.st.resources[p]
                    total  == bundleCount(before)
                    gone   == [k \in Resources |-> before[k] - after[k]]
                IN  /\ r.ret = "ok"
                    /\ \A k \in Resources : gone[k] >= 0 /\ after[k] >= 0
                    /\ bundleCount(gone) = IF total >= 8 THEN total \div 2 ELSE 0
                    /\ \A k1, k2 \in kinds :
                           /\ gone[k1] - gone[k2] >= 2 => after[k2] = 0
                           /\ gone[k1] - gone[k2] = 1 =>
                                  after[k2] = 0 \/ KindPlace(k1) < KindPlace(k2)
                    /\ IF bundleCount(gone) > 0
                       THEN p \in DOMAIN reported /\ reported[p] = gone
                       ELSE p \notin DOMAIN reported

\* A roll of 7 has taken four of the nine cards of the second player, two Ore
\* and seven Wool: two of each, which uses up the Ore.
C31_Witness ==
    /\ phase = "awaitingRobberMove"
    /\ turn = 1
    /\ resources["B"] = Bundle([Wool |-> 5])

\* C33: every ledger count is non-negative in every reachable state: the
\* bank's count and every player's count of every resource kind are at least
\* 0 after any sequence of engine calls, maritimeTrade with arbitrary integer
\* bundles included.
C33_LedgersNonNegative ==
    \A k \in Resources :
        /\ bank[k] >= 0
        /\ \A p \in Range(players) : resources[p][k] >= 0

\* C34: node n is owned by player p in the ownership map if and only if n is
\* in p's settlement set, every owner is a player, and each player's victory
\* points equal the size of that player's settlement set.
C34_OwnershipConsistent ==
    /\ \A n \in DOMAIN nodeOwnership :
           nodeOwnership[n] # Null => nodeOwnership[n] \in Range(players)
    /\ \A p \in Range(players) :
           /\ settlements[p] =
                  {n \in DOMAIN nodeOwnership : nodeOwnership[n] = p}
           /\ victoryPoints[p] = Cardinality(settlements[p])

\* A player owns two settlements placed in the setup and one built in play.
C34_Witness ==
    \E p \in Range(players) :
        /\ phase = "awaitingActions"
        /\ victoryPoints[p] = 3
        /\ Cardinality({n \in DOMAIN nodeOwnership : nodeOwnership[n] = p}) = 3

\* C35: only nodes of the board are ever owned: placeInitialSettlement and
\* buildSettlementAt called with a node id that is not a node of the board
\* are rejected and change nothing (no owner, no victory point, no advance
\* of the snake), and the key set of the ownership map is the node set of
\* the board.
C35_OnlyBoardNodesOwned ==
    /\ DOMAIN nodeOwnership = DOMAIN nodeNeighbors
    /\ \A p \in PlayerIds :
       \A n \in NodeInputs \ DOMAIN nodeNeighbors :
           LET placing == placeInitialSettlement(p, n)
               building == buildSettlementAt(p, n)
           IN  /\ placing.ret = "error"
               /\ placing.st = Engine
               /\ building.ret \in {"false", "error"}
               /\ building.st = Engine

\* C36: startGame fails when fewer than 2 players exist, and in every
\* reachable state in which a settlement is owned or the phase is
\* awaitingRoll, awaitingActions or awaitingRobberMove, startGame has
\* succeeded before and at least 2 players exist.
C36_NoPlayBeforeStart ==
    /\ Len(players) < 2 =>
           \A first \in FirstInputs :
               /\ startGame(first).ret = "error"
               /\ startGame(first).st = Engine
    /\ ( \/ \E n \in DOMAIN nodeOwnership : nodeOwnership[n] # Null
         \/ phase \in {"awaitingRoll", "awaitingActions", "awaitingRobberMove"} )
           => (setupOrder # <<>> /\ Len(players) >= 2)

\* A step in which a card went from one player's hand to another's: a hand
\* lost a card of a kind of which another hand gained one.
HandToHand ==
    \E victim \in Range(players), thief \in Range(players) :
    \E k \in Resources :
        /\ victim # thief
        /\ resources'[victim][k] < resources[victim][k]
        /\ resources'[thief][k] > resources[thief][k]

\* C37: a card moves from one player's hand to another's only by a
\* moveRobber call made while the phase is awaitingRobberMove: the step
\* starts in awaitingRobberMove, moves exactly one card and leaves that
\* phase (so at most one theft per rolled 7), and no card moves hand to hand
\* during setupPlacement, awaitingRoll or awaitingActions.
C37_TheftOnlyAfterSeven ==
    [][HandToHand =>
          /\ phase = "awaitingRobberMove"
          /\ phase' = "awaitingActions"
          /\ bank' = bank
          /\ \E victim \in Range(players), thief \in Range(players) :
             \E k \in Resources :
                 resources' = [resources EXCEPT ![victim][k] = @ - 1,
                                                ![thief][k] = @ + 1]]_vars

(***************************************************************************)
(* The seed of the board: fetchDrandSeed32.                                *)
(* A string is the sequence of its characters.  A 32-bit word is the       *)
(* sequence of its four bytes, the highest first (TLC's integers end at    *)
(* 2^31 - 1); its value is w[1]*2^24 + w[2]*2^16 + w[3]*2^8 + w[4].        *)
(***************************************************************************)
HexDigits ==
    <<"0", "1", "2", "3", "4", "5", "6", "7", "8", "9",
      "a", "b", "c", "d", "e", "f">>

HexDigitsUpper ==
    <<"0", "1", "2", "3", "4", "5", "6", "7", "8", "9",
      "A", "B", "C", "D", "E", "F">>

IsHexDigit(c) == c \in Range(HexDigits) \cup Range(HexDigitsUpper)

HexValue(c) ==
    IF c \in Range(HexDigits) THEN IndexOf(HexDigits, c) - 1
    ELSE IndexOf(HexDigitsUpper, c) - 1

\* The text without its first n characters.
Drop(text, n) == SubSeq(text, n + 1, Len(text))

\* The text without the white space it starts with.
RECURSIVE TrimStart(_)
TrimStart(text) ==
    IF text # <<>> /\ text[1] = " " THEN TrimStart(Tail(text)) ELSE text

\* The hex digits the text starts with.
RECURSIVE DigitsPrefix(_)
DigitsPrefix(text) ==
    IF text # <<>> /\ IsHexDigit(text[1])
    THEN <<text[1]>> \o DigitsPrefix(Tail(text))
    ELSE <<>>

\* The number the hex digits spell, after the digits that spell acc.
RECURSIVE DigitsValue(_, _)
DigitsValue(digits, acc) ==
    IF digits = <<>> THEN acc
    ELSE DigitsValue(Tail(digits), 16 * acc + HexValue(digits[1]))

NaN == [nan |-> TRUE]

\* parseInt(text, 16): white space, a sign and "0x" are skipped, then the
\* longest run of hex digits is read; NaN when there is none.
parseInt16(text) ==
    LET trimmed  == TrimStart(text)
        signed   == trimmed # <<>> /\ trimmed[1] \in {"-", "+"}
        unsigned == IF signed THEN Tail(trimmed) ELSE trimmed
        prefixed == /\ Len(unsigned) >= 2
                    /\ unsigned[1] = "0"
                    /\ unsigned[2] \in {"x", "X"}
        digits   == DigitsPrefix(IF prefixed THEN Drop(unsigned, 2)
                                 ELSE unsigned)
        value    == DigitsValue(digits, 0)
    IN  IF digits = <<>> THEN NaN
        ELSE [nan |-> FALSE,
              value |-> IF signed /\ trimmed[1] = "-" THEN 0 - value
                        ELSE value]

\* byte & 0xff: the low byte of ToInt32(byte); ToInt32(NaN) is 0.
LowByte(byte) == IF byte.nan THEN 0 ELSE byte.value % 256

\* a ^ b on two bytes.
RECURSIVE Xor(_, _)
Xor(a, b) ==
    IF a = 0 THEN b
    ELSE IF b = 0 THEN a
    ELSE 2 * Xor(a \div 2, b \div 2) + ((a + b) % 2)

\* seed << 8 on a 32-bit word: the highest byte is lost.
ShiftLeft8(seed) == <<seed[2], seed[3], seed[4], 0>>

\* ((seed << 8) ^ (byte & 0xff)) >>> 0
FoldByte(seed, byte) ==
    LET shifted == ShiftLeft8(seed)
    IN  <<shifted[1], shifted[2], shifted[3], Xor(shifted[4], LowByte(byte))>>

\* hex.slice(i, j), i and j counted from 0
Slice(hex, i, j) == SubSeq(hex, i + 1, Min(j, Len(hex)))

\* for (let i = ...; i < 16; i += 2) { ... }, from i on
RECURSIVE FoldFrom(_, _, _)
FoldFrom(hex, i, seed) ==
    IF i < 16
    THEN FoldFrom(hex, i + 2,
                  FoldByte(seed, parseInt16(Slice(hex, i, i + 2))))
    ELSE seed

\* fetchDrandSeed32() on the response res of the request: fetched (the
\* request did not fail), ok (res.ok), hasRandomness (the body has the
\* field), randomness (j.randomness).  What it returns, or that it throws.
fetchDrandSeed32(res) ==
    IF ~res.fetched \/ ~res.ok THEN [ret |-> "error"]
    ELSE LET hex == IF res.hasRandomness THEN res.randomness ELSE <<>>
         IN  IF Len(hex) < 16 THEN [ret |-> "error"]
             ELSE [ret |-> "ok", seed |-> FoldFrom(hex, 0, <<0, 0, 0, 0>>)]

\* The texts of one byte: two hex digits, and texts parseInt reads
\* otherwise (no digit, one digit, a sign, capitals, the prefix "0x").
ByteTexts == { <<"0", "0">>, <<"a", "5">> }

OddTexts ==
    { <<"g", "1">>, <<"1", "g">>, <<"-", "1">>, <<"F", "f">>, <<"0", "x">> }

\* Every text of n bytes written with ByteTexts.
RECURSIVE HexOfBytes(_)
HexOfBytes(n) ==
    IF n = 0 THEN { <<>> }
    ELSE { h \o t : h \in HexOfBytes(n - 1), t \in ByteTexts }

\* hex with the byte at position pos (1..8) written as text.
WithByte(hex, pos, text) ==
    SubSeq(hex, 1, 2 * pos - 2) \o text \o Drop(hex, 2 * pos)

\* The first 16 characters of the randomness: eight bytes of ByteTexts, or
\* zeros with one byte of OddTexts.
FirstSixteen ==
    HexOfBytes(8) \cup
    { WithByte(<<"0", "0", "0", "0", "0", "0", "0", "0",
                 "0", "0", "0", "0", "0", "0", "0", "0">>, pos, t) :
          pos \in 1..8, t \in OddTexts }

\* What follows the 16th character.
TailInputs == { <<>>, <<"f", "f">>, <<"7">> }

Drand(hex) ==
    [fetched |-> TRUE, ok |-> TRUE, hasRandomness |-> TRUE, randomness |-> hex]

\* The responses of the request: none, an HTTP error, a body without the
\* field, a randomness of 15 characters, and the texts above.
DrandResponses ==
    { [Drand(<<>>) EXCEPT !.fetched = FALSE],
      [Drand(<<>>) EXCEPT !.ok = FALSE],
      [Drand(<<>>) EXCEPT !.hasRandomness = FALSE],
      Drand(<<"0", "1", "2", "3", "4", "5", "6", "7",
              "8", "9", "a", "b", "c", "d", "e">>) }
    \cup { Drand(h \o t) : h \in FirstSixteen, t \in TailInputs }

\* A call of fetchDrandSeed32 that has got its response.
SeedInit ==
    /\ NewCatanEngine(initialBank)
    /\ NoStore
    /\ drand \in { [res |-> r, out |-> NoObject] : r \in DrandResponses }

FetchDrandSeed32 ==
    /\ drand.out = NoObject
    /\ drand' = [drand EXCEPT !.out = fetchDrandSeed32(drand.res)]
    /\ UNCHANGED <<engineVars, boardVars, setupOrder, placed, callerVars,
                   store, storage, inits, rolls>>

SeedNext == FetchDrandSeed32

SeedSpec == SeedInit /\ [][SeedNext]_vars

\* The seed of a randomness of 16 characters or more.
SeedOf(hex) == fetchDrandSeed32(Drand(hex)).seed

\* C32: fetchDrandSeed32 folds the first 8 bytes of the randomness into a
\* 32-bit seed: the result is an integer in 0..2^32-1 (four bytes of 0..255),
\* it depends on no character after the 16th, and each of the first 8 byte
\* positions can influence it: for each position there are two inputs
\* differing only there that give different seeds.
C32_SeedFoldsEightBytes ==
    (drand # NoObject /\ drand.out # NoObject /\ drand.out.ret = "ok") =>
        LET hex  == drand.res.randomness
            seed == drand.out.seed
        IN  /\ Len(seed) = 4
            /\ \A i \in 1..4 : seed[i] \in 0..255
            /\ \A t \in TailInputs : SeedOf(SubSeq(hex, 1, 16) \o t) = seed
            /\ \A pos \in 1..8 :
               \E h \in FirstSixteen, t \in ByteTexts \cup OddTexts :
                   /\ WithByte(h, pos, t) # h
                   /\ SeedOf(WithByte(h, pos, t)) # SeedOf(h)

(***************************************************************************)
(* The store (useGameStore) and the page (Game) that calls it.             *)
(* store.engine tells whether the store holds an engine, whose fields are  *)
(* the engine's variables; view is the store's view.  The page shows the   *)
(* in-game buttons when started holds and a view exists, and enables them  *)
(* by the view's phase.  The log and the overlays (messages, lastRoll,     *)
(* lastGains, lastLosses, resVersion) are written and shown but read by no *)
(* decision of the store or the page; they are left out.                   *)
(***************************************************************************)
\* The item _saveNow stores under SAVE_KEY: the JSON text of the payload,
\* which holds the tiles by value.
Payload(e, tl, started) ==
    [held |-> TRUE, snapshot |-> ExportOf(e, tl), started |-> started]

\* _saveNow() of the store whose fields have become st and whose engine has
\* the fields e and the tile list tl; stored: setItem did not throw.
SaveNow(e, tl, st, stored) ==
    /\ storage' = IF stored THEN Payload(e, tl, st.started) ELSE storage
    /\ store' = IF stored THEN [st EXCEPT !.hasSaved = TRUE] ELSE st

\* The board of an engine with the tile list tl.
Board(tl) ==
    /\ tiles = tl
    /\ nodeNeighbors = neighborNodes
    /\ tileToNodes =
         [t \in TileIds |-> SortedSeq({k \in NodeIds : t \in adjacentTiles[k]})]

\* The most rollAndDistribute() calls that wait for dice at a time.
MaxWaiting == 2

\* A store that has continued the saved game of A and B and has saved it.
RollInit ==
    /\ Board(standard19Tiles)
    /\ \E handA \in OtherHandInputs, handB \in OtherHandInputs :
           LET e == importState(SavedGame(handA, handB))
           IN  /\ Holds(e)
               /\ view = PublicView(e, TileRefs)
               /\ storage = Payload(e, standard19Tiles, TRUE)
    /\ store = [engine |-> TRUE, started |-> TRUE, hasSaved |-> TRUE,
                mounted |-> TRUE]
    /\ inits = <<>>
    /\ rolls = [waiting |-> 0, resolved |-> 0, seven |-> FALSE]
    /\ NoFetch
    /\ setupOrder = <<"A", "B">>
    /\ placed = 4
    /\ handCopy = NoObject
    /\ snapshot = NoObject
    /\ bankShared = FALSE

\* The in-game panel is shown and the view's phase is ph.
Shows(ph) == store.started /\ view # NoObject /\ view.phase = ph

\* A click on "Roll Dice": roll() up to the await inside
\* engine.rollAndDistribute().  (When the engine throws, roll() only logs.)
StoreRoll ==
    /\ Shows("awaitingRoll")
    /\ store.engine
    /\ RollAllowed
    /\ rolls.waiting < MaxWaiting
    /\ rolls' = [rolls EXCEPT !.waiting = @ + 1]
    /\ UNCHANGED <<engineVars, boardVars, setupOrder, placed, callerVars,
                   store, storage, inits, drand>>

\* The dice service answers one waiting call: the rest of
\* rollAndDistribute(), then the rest of roll().
StoreRollResolves(d, stored) ==
    /\ rolls.waiting > 0
    /\ LET r == afterRollDice(d[1], d[2])
       IN  /\ Becomes(r.st)
           /\ view' = PublicView(r.st, TileRefs)
           /\ SaveNow(r.st, tiles, store, stored)
    /\ rolls' = [waiting |-> rolls.waiting - 1,
                 resolved |-> rolls.resolved + 1,
                 seven |-> rolls.seven \/ d[1] + d[2] = 7]
    /\ UNCHANGED <<boardVars, setupOrder, placed, handCopy, snapshot,
                   bankShared, inits, drand>>

\* The rest of a store action after its engine call returned r: the new view
\* and _saveNow(), or only a line of the log when the engine threw.
StoreShows(r, stored) ==
    IF r.ret = "error"
    THEN UNCHANGED <<engineVars, view, store, storage>>
    ELSE /\ Becomes(r.st)
         /\ view' = PublicView(r.st, TileRefs)
         /\ SaveNow(r.st, tiles, store, stored)

\* A click on "Next Player": nextPlayer().
StoreNextPlayer(stored) ==
    /\ Shows("awaitingActions")
    /\ store.engine
    /\ turn < MaxTurn
    /\ StoreShows(nextPlayer, stored)
    /\ rolls' = IF nextPlayer.ret = "error" THEN rolls
                ELSE [rolls EXCEPT !.resolved = 0]
    /\ UNCHANGED <<boardVars, setupOrder, placed, handCopy, snapshot,
                   bankShared, inits, drand>>

\* A click on a tile: moveRobber(tileId), without a victim.
StoreMoveRobber(tileId, stored) ==
    /\ Shows("awaitingRobberMove")
    /\ store.engine
    /\ StoreShows(moveRobber(tileId, Null, "Desert"), stored)
    /\ rolls' = IF moveRobber(tileId, Null, "Desert").ret = "error" THEN rolls
                ELSE [rolls EXCEPT !.seven = FALSE]
    /\ UNCHANGED <<boardVars, setupOrder, placed, handCopy, snapshot,
                   bankShared, inits, drand>>

RollNext ==
    \/ StoreRoll
    \/ \E d \in SavedDiceInputs, stored \in BOOLEAN : StoreRollResolves(d, stored)
    \/ \E stored \in BOOLEAN : StoreNextPlayer(stored)
    \/ \E t \in PlayTileInputs, stored \in BOOLEAN : StoreMoveRobber(t, stored)

RollSpec == RollInit /\ [][RollNext]_vars

\* C38: at most one dice roll is resolved per turn, also when the roll is
\* invoked again while an earlier invocation waits for the dice service:
\* between two successive nextPlayer calls production or discard is applied
\* at most once, and a resolved 7 is followed by awaitingRobberMove until
\* moveRobber is called.
C38_OneRollPerTurn ==
    /\ rolls.resolved <= 1
    /\ rolls.seven => phase = "awaitingRobberMove"

(***************************************************************************)
(* The store's lifecycle: the page's mount effect, init(), reset(), the    *)
(* saved game, and the players added before the game starts.  While        *)
(* store.engine is FALSE the store holds no engine and the engine's        *)
(* variables keep the fields of a new engine.                              *)
(***************************************************************************)
\* The fields of new CatanEngine(rng, trader, {tiles: tl}).
Constructed(tl) ==
    [players |-> <<>>,
     resources |-> <<>>,
     settlements |-> <<>>,
     victoryPoints |-> <<>>,
     bank |-> initialBank,
     currentPlayerOrder |-> <<>>,
     currentIdx |-> 0,
     robberOn |->
         LET deserts == {i \in DOMAIN tl : tl[i].resource = "Desert"}
         IN  IF deserts # {}
             THEN tl[CHOOSE i \in deserts : \A j \in deserts : i <= j].id
             ELSE tl[1].id,
     turn |-> 0,
     phase |-> "setupPlacement",
     setupRound |-> 1,
     setupDirection |-> 1,
     nodeOwnership |-> [n \in DOMAIN neighborNodes |-> Null]]

\* A list randomizedStandard19Tiles(seed) returns, after section 4.4 of the
\* specification: the tiles of the default board, in place, with their kinds
\* and number tokens permuted (here: in reverse order; the desert, in the
\* middle, keeps its place and has no number).
ShuffledTiles ==
    [i \in 1..Len(standard19Tiles) |->
        [standard19Tiles[i] EXCEPT
            !.resource = standard19Tiles[Len(standard19Tiles) + 1 - i].resource,
            !.numberToken =
                standard19Tiles[Len(standard19Tiles) + 1 - i].numberToken]]

\* The lists randomizedStandard19Tiles returns in this model, for any seed.
BoardInputs == { standard19Tiles, ShuffledTiles }

\* The references to the tiles of the list tl.
RefsOf(tl) == [i \in 1..Len(tl) |-> i]

\* What the browser has stored under SAVE_KEY when the page opens: nothing,
\* or the game of A and B as an earlier visit saved it.
SavedItems ==
    { NoObject,
      Payload(importState(SavedGame(Bundle([Ore |-> 2, Wool |-> 7]),
                                    EMPTY_BUNDLE)),
              standard19Tiles, TRUE) }

\* The most init() calls that wait for the seed at a time, and the most
\* players added to one engine.
MaxInits == 2

MaxStorePlayers == 2

\* The store as create() leaves it, before the page's mount effect runs.
StoreInit ==
    /\ Board(standard19Tiles)
    /\ Holds(Constructed(standard19Tiles))
    /\ view = NoObject
    /\ storage \in SavedItems
    /\ store = [engine |-> FALSE, started |-> FALSE, hasSaved |-> FALSE,
                mounted |-> FALSE]
    /\ inits = <<>>
    /\ rolls = [waiting |-> 0, resolved |-> 0, seven |-> FALSE]
    /\ NoFetch
    /\ setupOrder = <<>>
    /\ placed = 0
    /\ handCopy = NoObject
    /\ snapshot = NoObject
    /\ bankShared = FALSE

\* init() up to "await fetchDrandSeed32()": has is read before the await.
\* early is not a field of the program: it tells that continueSaved has run
\* since this call began.
InitCall == [has |-> storage.held, early |-> FALSE]

RemoveAt(seq, k) == SubSeq(seq, 1, k - 1) \o SubSeq(seq, k + 1, Len(seq))

\* The page's mount effect: checkSaved(); init().
Mount ==
    /\ ~store.mounted
    /\ store' = [store EXCEPT !.mounted = TRUE, !.hasSaved = storage.held]
    /\ inits' = Append(inits, InitCall)
    /\ UNCHANGED <<engineVars, boardVars, setupOrder, placed, callerVars,
                   storage, rolls, drand>>

\* The rest of the k-th waiting init() once the request for the seed has
\* got the response res: the try branch with the board of the seed, or the
\* catch branch with the default board and has read again.
InitResolves(k, res, board) ==
    LET ok  == fetchDrandSeed32(res).ret = "ok"
        tl  == IF ok THEN board ELSE standard19Tiles
        has == IF ok THEN inits[k].has ELSE storage.held
        e   == Constructed(tl)
    IN  /\ Becomes(e)
        /\ tiles' = tl
        /\ view' = PublicView(e, RefsOf(tl))
        /\ store' = [store EXCEPT !.engine = TRUE, !.started = FALSE,
                                  !.hasSaved = has]
        /\ inits' = RemoveAt(inits, k)
        /\ setupOrder' = <<>>
        /\ placed' = 0
        /\ UNCHANGED <<nodeNeighbors, tileToNodes, handCopy, snapshot,
                       bankShared, storage, rolls, drand>>

\* The pre-game panel is shown, with "Continue" and "Clear Save" in it.
ShowsContinue ==
    /\ store.mounted
    /\ ~store.started
    /\ store.hasSaved
    /\ IF view = NoObject THEN TRUE ELSE Len(view.players) = 0

\* A click on "Continue": continueSaved().
ContinueSaved ==
    /\ ShowsContinue
    /\ IF ~storage.held
       THEN UNCHANGED <<engineVars, tiles, view, store, inits, setupOrder,
                        placed>>
       ELSE LET e == importState(storage.snapshot)
            IN  /\ Becomes(e)
                /\ tiles' = storage.snapshot.tiles
                /\ view' = PublicView(e, RefsOf(storage.snapshot.tiles))
                /\ store' = [store EXCEPT !.engine = TRUE,
                                          !.started = storage.started,
                                          !.hasSaved = TRUE]
                /\ inits' = [k \in DOMAIN inits |->
                                [inits[k] EXCEPT !.early = TRUE]]
                /\ setupOrder' = e.currentPlayerOrder
                /\ placed' = Cardinality({n \in DOMAIN e.nodeOwnership :
                                             e.nodeOwnership[n] # Null})
    /\ UNCHANGED <<nodeNeighbors, tileToNodes, handCopy, snapshot,
                   bankShared, storage, rolls, drand>>

\* A click on "Clear Save": clearSaved().
ClearSaved ==
    /\ ShowsContinue
    /\ storage' = NoObject
    /\ store' = [store EXCEPT !.hasSaved = FALSE]
    /\ UNCHANGED <<engineVars, boardVars, setupOrder, placed, callerVars,
                   inits, rolls, drand>>

\* A click on "Reset": reset(), which calls init() first and then removes
\* the saved game.
Reset ==
    /\ store.mounted
    /\ ~store.started
    /\ Len(inits) < MaxInits
    /\ inits' = Append(inits, InitCall)
    /\ storage' = NoObject
    /\ store' = [store EXCEPT !.hasSaved = FALSE]
    /\ UNCHANGED <<engineVars, boardVars, setupOrder, placed, callerVars,
                   rolls, drand>>

\* A click on "Add player": addPlayer(name), with the id randomUUID mints.
StoreAddPlayer(stored) ==
    /\ store.mounted
    /\ ~store.started
    /\ store.engine
    /\ Len(players) < MaxStorePlayers
    /\ LET r == addPlayer(IdPool[Len(players) + 1])
       IN  /\ Becomes(r.st)
           /\ view' = PublicView(r.st, TileRefs)
           /\ SaveNow(r.st, tiles, store, stored)
    /\ UNCHANGED <<boardVars, setupOrder, placed, handCopy, snapshot,
                   bankShared, inits, rolls, drand>>

\* A click on "Start game": startGame(view.players[0].id).
StoreStartGame(stored) ==
    /\ store.mounted
    /\ ~store.started
    /\ view # NoObject
    /\ Len(view.players) >= 2
    /\ store.engine
    /\ LET r == startGame(view.players[1].id)
       IN  /\ r.ret = "ok"
           /\ Becomes(r.st)
           /\ view' = PublicView(r.st, TileRefs)
           /\ SaveNow(r.st, tiles, [store EXCEPT !.started = TRUE], stored)
           /\ setupOrder' = r.st.currentPlayerOrder
           /\ placed' = 0
    /\ UNCHANGED <<boardVars, handCopy, snapshot, bankShared, inits, rolls,
                   drand>>

\* The responses the request for the seed gets here: none, and a randomness.
SeedResponses ==
    { [Drand(<<>>) EXCEPT !.fetched = FALSE],
      Drand(<<"0", "1", "2", "3", "4", "5", "6", "7",
              "8", "9", "a", "b", "c", "d", "e", "f">>) }

StoreNext ==
    \/ Mount
    \/ \E k \in DOMAIN inits, res \in SeedResponses, board \in BoardInputs :
           InitResolves(k, res, board)
    \/ ContinueSaved
    \/ ClearSaved
    \/ Reset
    \/ \E stored \in BOOLEAN : StoreAddPlayer(stored)
    \/ \E stored \in BOOLEAN : StoreStartGame(stored)

StoreSpec == StoreInit /\ [][StoreNext]_vars

\* C39: a restored game stays active: once continueSaved has installed the
\* engine imported from the saved snapshot, no continuation of an init() that
\* was started earlier and still waits for the seed replaces that engine or
\* overwrites the saved game.
C39_RestoredGameStays ==
    [][\A k \in DOMAIN inits :
           (inits[k].early /\ inits' = RemoveAt(inits, k)) =>
               /\ UNCHANGED <<engineVars, tiles>>
               /\ store'.engine = store.engine
               /\ store'.started = store.started
               /\ storage' = storage]_vars

\* C40: whenever no store action is in flight, hasSaved is true if and only
\* if a saved game exists under the save key; in particular after reset()
\* and the completion of the init() it starts, the save is deleted and
\* hasSaved is false.
C40_HasSavedMatchesStorage ==
    (store # NoObject /\ store.mounted /\ inits = <<>> /\ rolls.waiting = 0)
        => (store.hasSaved <=> storage.held)
=============================================================================
